---------------------------- MODULE Spec2Model ----------------------------
(***************************************************************************)
(* Address validator of src/check (address.py, address_check.py,           *)
(* address_score.py).                                                      *)
(*                                                                         *)
(* Representation.  A Python str is a sequence of characters; a character  *)
(* is a one-character TLA+ string ("a", ",", "7"); a character outside     *)
(* ASCII, and the backtick, is written by its code point ("u0644",         *)
(* "u0060").  A float that is a                                            *)
(* geographic coordinate is an integer count of 1/111000 degree, so that   *)
(* one unit of latitude is one metre (lat_m = 111_000); an area is an      *)
(* integer count of 1/1000 m2; a score is an integer count of tenths.      *)
(* math.cos is the table CosMilli, exact to a whole degree and 1/1000.     *)
(***************************************************************************)
EXTENDS Integers, Sequences, FiniteSets, TLC

-----------------------------------------------------------------------------
(* Characters and the str methods the code uses.                           *)

AsciiLower == <<"a","b","c","d","e","f","g","h","i","j","k","l","m",
                "n","o","p","q","r","s","t","u","v","w","x","y","z">>
AsciiUpper == <<"A","B","C","D","E","F","G","H","I","J","K","L","M",
                "N","O","P","Q","R","S","T","U","V","W","X","Y","Z">>
\* Letters outside a-z/A-Z: Arabic alef, lam, ya, meem, noon (no case),
\* Cyrillic Ya/ya, Latin o-circumflex and sharp s.
OtherLower == <<"u0627","u0644","u064A","u0645","u0646","u044F","u00F4","u00DF">>
CyrillicUpper == <<"u042F">>
CyrillicLower == <<"u044F">>
Digits     == {"0","1","2","3","4","5","6","7","8","9"}
Whitespace == {" ", "\t", "\n"}

Range(f) == {f[i] : i \in DOMAIN f}

\* The characters of [a-zA-Z], and the letters of the other scripts.
AsciiLetters == Range(AsciiLower) \cup Range(AsciiUpper)
OtherLetters == Range(OtherLower) \cup Range(CyrillicUpper)

IsAsciiLetter(c) == c \in AsciiLetters
IsLetter(c)      == IsAsciiLetter(c) \/ c \in OtherLetters
IsDigit(c)       == c \in Digits
\* \w of the re module with re.UNICODE: letters, digits and the underscore.
IsWord(c)        == IsLetter(c) \/ IsDigit(c) \/ c = "_"

\* str.lower() on one character.
UpperLetters == Range(AsciiUpper) \cup Range(CyrillicUpper)

LowerChar(c) ==
    IF c \notin UpperLetters THEN c
    ELSE IF \E i \in DOMAIN AsciiUpper : AsciiUpper[i] = c
    THEN AsciiLower[CHOOSE i \in DOMAIN AsciiUpper : AsciiUpper[i] = c]
    ELSE CyrillicLower[CHOOSE i \in DOMAIN CyrillicUpper : CyrillicUpper[i] = c]

Lower(s) == [i \in 1..Len(s) |-> LowerChar(s[i])]

\* str.strip(): leading and trailing whitespace removed.
Strip(s) ==
    IF \A i \in 1..Len(s) : s[i] \in Whitespace THEN <<>>
    ELSE LET lo == CHOOSE i \in 1..Len(s) :
                       /\ s[i] \notin Whitespace
                       /\ \A j \in 1..(i - 1) : s[j] \in Whitespace
             hi == CHOOSE i \in 1..Len(s) :
                       /\ s[i] \notin Whitespace
                       /\ \A j \in (i + 1)..Len(s) : s[j] \in Whitespace
         IN  SubSeq(s, lo, hi)

\* needle in hay
Contains(hay, needle) ==
    \E i \in 1..(Len(hay) - Len(needle) + 1) :
        SubSeq(hay, i, i + Len(needle) - 1) = needle

\* s.startswith(p)
StartsWith(s, p) == Len(p) <= Len(s) /\ SubSeq(s, 1, Len(p)) = p

\* s.count(c) for a one-character c
Count(s, c) == Cardinality({i \in 1..Len(s) : s[i] = c})

\* s.replace(c, '') for a one-character c
RemoveChar(s, c) == SelectSeq(s, LAMBDA x : x # c)

\* s.split(c) for a one-character c: n separators give n+1 parts.
RECURSIVE Split(_, _)
Split(s, c) ==
    IF \A i \in 1..Len(s) : s[i] # c THEN <<s>>
    ELSE LET k == CHOOSE i \in 1..Len(s) :
                      s[i] = c /\ \A j \in 1..(i-1) : s[j] # c
         IN  <<SubSeq(s, 1, k - 1)>> \o Split(SubSeq(s, k + 1, Len(s)), c)

\* s.split(): split on runs of whitespace, no empty word.
RECURSIVE SplitWords(_)
SplitWords(s) ==
    LET t == Strip(s)
    IN  IF t = <<>> THEN <<>>
        ELSE IF \A i \in 1..Len(t) : t[i] \notin Whitespace THEN <<t>>
        ELSE LET k == CHOOSE i \in 1..Len(t) :
                          t[i] \in Whitespace /\ \A j \in 1..(i-1) : t[j] \notin Whitespace
             IN  <<SubSeq(t, 1, k - 1)>> \o SplitWords(SubSeq(t, k + 1, Len(t)))

\* re.findall(r"[0-9]+", s) as a set: the maximal runs of ASCII digits.
DigitGroups(s) ==
    LET starts == {i \in 1..Len(s) :
                      IsDigit(s[i]) /\ (i = 1 \/ ~IsDigit(s[i - 1]))}
        EndOf(i) == CHOOSE j \in i..Len(s) :
                        /\ \A k \in i..j : IsDigit(s[k])
                        /\ (j = Len(s) \/ ~IsDigit(s[j + 1]))
    IN  {SubSeq(s, i, EndOf(i)) : i \in starts}

\* any(char.isdigit() for char in s)
HasDigit(s) == \E i \in 1..Len(s) : IsDigit(s[i])

-----------------------------------------------------------------------------
(* COUNTRY_MAPPING of check/address.py, as (alias, canonical name) pairs in *)
(* the order of the source.                                                *)

\* A variant of the table with an alias chain: "holland" leads to
\* "netherlands", which leads to "the netherlands".
COUNTRY_MAPPING_chained == <<
    <<<<"h","o","l","l","a","n","d">>, <<"n","e","t","h","e","r","l","a","n","d","s">>>>,
    <<<<"n","e","t","h","e","r","l","a","n","d","s">>,
      <<"t","h","e"," ","n","e","t","h","e","r","l","a","n","d","s">>>>
>>

COUNTRY_MAPPING == <<
    \* "korea, south": "south korea"
    <<<<"k","o","r","e","a",","," ","s","o","u","t","h">>,
      <<"s","o","u","t","h"," ","k","o","r","e","a">>>>,
    \* "korea, north": "north korea"
    <<<<"k","o","r","e","a",","," ","n","o","r","t","h">>,
      <<"n","o","r","t","h"," ","k","o","r","e","a">>>>,
    \* "cote d ivoire": "ivory coast"
    <<<<"c","o","t","e"," ","d"," ","i","v","o","i","r","e">>,
      <<"i","v","o","r","y"," ","c","o","a","s","t">>>>,
    \* "côte d'ivoire": "ivory coast"
    <<<<"c","u00F4","t","e"," ","d","'","i","v","o","i","r","e">>,
      <<"i","v","o","r","y"," ","c","o","a","s","t">>>>,
    \* "cote d'ivoire": "ivory coast"
    <<<<"c","o","t","e"," ","d","'","i","v","o","i","r","e">>,
      <<"i","v","o","r","y"," ","c","o","a","s","t">>>>,
    \* "the gambia": "gambia"
    <<<<"t","h","e"," ","g","a","m","b","i","a">>,
      <<"g","a","m","b","i","a">>>>,
    \* "netherlands": "the netherlands"
    <<<<"n","e","t","h","e","r","l","a","n","d","s">>,
      <<"t","h","e"," ","n","e","t","h","e","r","l","a","n","d","s">>>>,
    \* "holland": "the netherlands"
    <<<<"h","o","l","l","a","n","d">>,
      <<"t","h","e"," ","n","e","t","h","e","r","l","a","n","d","s">>>>,
    \* "congo, democratic republic of the": "democratic republic of the congo"
    <<<<"c","o","n","g","o",","," ","d","e","m","o","c","r","a","t","i","c"," ","r","e","p","u","b","l","i","c"," ","o","f"," ","t","h","e">>,
      <<"d","e","m","o","c","r","a","t","i","c"," ","r","e","p","u","b","l","i","c"," ","o","f"," ","t","h","e"," ","c","o","n","g","o">>>>,
    \* "drc": "democratic republic of the congo"
    <<<<"d","r","c">>,
      <<"d","e","m","o","c","r","a","t","i","c"," ","r","e","p","u","b","l","i","c"," ","o","f"," ","t","h","e"," ","c","o","n","g","o">>>>,
    \* "congo, republic of the": "republic of the congo"
    <<<<"c","o","n","g","o",","," ","r","e","p","u","b","l","i","c"," ","o","f"," ","t","h","e">>,
      <<"r","e","p","u","b","l","i","c"," ","o","f"," ","t","h","e"," ","c","o","n","g","o">>>>,
    \* "burma": "myanmar"
    <<<<"b","u","r","m","a">>,
      <<"m","y","a","n","m","a","r">>>>,
    \* "bonaire": "bonaire, saint eustatius and saba"
    <<<<"b","o","n","a","i","r","e">>,
      <<"b","o","n","a","i","r","e",","," ","s","a","i","n","t"," ","e","u","s","t","a","t","i","u","s"," ","a","n","d"," ","s","a","b","a">>>>,
    \* "usa": "united states"
    <<<<"u","s","a">>,
      <<"u","n","i","t","e","d"," ","s","t","a","t","e","s">>>>,
    \* "us": "united states"
    <<<<"u","s">>,
      <<"u","n","i","t","e","d"," ","s","t","a","t","e","s">>>>,
    \* "united states of america": "united states"
    <<<<"u","n","i","t","e","d"," ","s","t","a","t","e","s"," ","o","f"," ","a","m","e","r","i","c","a">>,
      <<"u","n","i","t","e","d"," ","s","t","a","t","e","s">>>>,
    \* "uk": "united kingdom"
    <<<<"u","k">>,
      <<"u","n","i","t","e","d"," ","k","i","n","g","d","o","m">>>>,
    \* "great britain": "united kingdom"
    <<<<"g","r","e","a","t"," ","b","r","i","t","a","i","n">>,
      <<"u","n","i","t","e","d"," ","k","i","n","g","d","o","m">>>>,
    \* "britain": "united kingdom"
    <<<<"b","r","i","t","a","i","n">>,
      <<"u","n","i","t","e","d"," ","k","i","n","g","d","o","m">>>>,
    \* "uae": "united arab emirates"
    <<<<"u","a","e">>,
      <<"u","n","i","t","e","d"," ","a","r","a","b"," ","e","m","i","r","a","t","e","s">>>>,
    \* "u.s.a.": "united states"
    <<<<"u",".","s",".","a",".">>,
      <<"u","n","i","t","e","d"," ","s","t","a","t","e","s">>>>,
    \* "u.s.": "united states"
    <<<<"u",".","s",".">>,
      <<"u","n","i","t","e","d"," ","s","t","a","t","e","s">>>>,
    \* "u.k.": "united kingdom"
    <<<<"u",".","k",".">>,
      <<"u","n","i","t","e","d"," ","k","i","n","g","d","o","m">>>>,
    \* "north macedonia, the republic of": "north macedonia"
    <<<<"n","o","r","t","h"," ","m","a","c","e","d","o","n","i","a",","," ","t","h","e"," ","r","e","p","u","b","l","i","c"," ","o","f">>,
      <<"n","o","r","t","h"," ","m","a","c","e","d","o","n","i","a">>>>,
    \* "palestine, state of": "palestinian territory"
    <<<<"p","a","l","e","s","t","i","n","e",","," ","s","t","a","t","e"," ","o","f">>,
      <<"p","a","l","e","s","t","i","n","i","a","n"," ","t","e","r","r","i","t","o","r","y">>>>,
    \* "palestinian": "palestinian territory"
    <<<<"p","a","l","e","s","t","i","n","i","a","n">>,
      <<"p","a","l","e","s","t","i","n","i","a","n"," ","t","e","r","r","i","t","o","r","y">>>>
>>

\* check/address_check.py, lines 7-46: the same entries in the same order,
\* without the last three ("north macedonia, the republic of",
\* "palestine, state of", "palestinian").
COUNTRY_MAPPING_check ==
    SelectSeq(COUNTRY_MAPPING, LAMBDA e :
        e[1] \notin {<<"n","o","r","t","h"," ","m","a","c","e","d","o","n","i","a",","," ","t","h","e"," ","r","e","p","u","b","l","i","c"," ","o","f">>,
                      <<"p","a","l","e","s","t","i","n","e",","," ","s","t","a","t","e"," ","o","f">>,
                      <<"p","a","l","e","s","t","i","n","i","a","n">>})

\* COUNTRY_MAPPING.get(key, key)
MappingGet(key) ==
    IF \E i \in DOMAIN COUNTRY_MAPPING : COUNTRY_MAPPING[i][1] = key
    THEN COUNTRY_MAPPING[CHOOSE i \in DOMAIN COUNTRY_MAPPING :
                             COUNTRY_MAPPING[i][1] = key][2]
    ELSE key

-----------------------------------------------------------------------------
(* Input data: candidate addresses, seeds, and the place-name datasets the *)
(* geonamescache package may hold.                                         *)

\* "115 New Cavendish Street, London W1T 5DU, United Kingdom"
A_london == <<"1","1","5"," ","N","e","w"," ","C","a","v","e","n","d","i","s",
    "h"," ","S","t","r","e","e","t",","," ","L","o","n","d","o","n"," ","W",
    "1","T"," ","5","D","U",","," ","U","n","i","t","e","d"," ","K","i","n",
    "g","d","o","m">>
\* "10 Downing Street, London SW1A 2AA, UK"
A_london_uk == <<"1","0"," ","D","o","w","n","i","n","g"," ","S","t","r","e",
    "e","t",","," ","L","o","n","d","o","n"," ","S","W","1","A"," ","2","A",
    "A",","," ","U","K">>
\* "6 , Yemen"
A_yemen6 == <<"6"," ",","," ","Y","e","m","e","n">>
\* "3 Upper Alma Road, Rosebank, Cape Town, 7700, South Africa"
A_cape == <<"3"," ","U","p","p","e","r"," ","A","l","m","a"," ","R","o","a",
    "d",","," ","R","o","s","e","b","a","n","k",","," ","C","a","p","e"," ",
    "T","o","w","n",","," ","7","7","0","0",","," ","S","o","u","t","h"," ",
    "A","f","r","i","c","a">>
\* "12 Avenue Foch, Brazzaville, Congo, Republic of the"
A_congo == <<"1","2"," ","A","v","e","n","u","e"," ","F","o","c","h",","," ",
    "B","r","a","z","z","a","v","i","l","l","e",","," ","C","o","n","g","o",
    ","," ","R","e","p","u","b","l","i","c"," ","o","f"," ","t","h","e">>
\* "Avenue Mekka 14, Laayoune 70000, Western Sahara"
A_laayoune == <<"A","v","e","n","u","e"," ","M","e","k","k","a"," ","1","4",
    ","," ","L","a","a","y","o","u","n","e"," ","7","0","0","0","0",","," ",
    "W","e","s","t","e","r","n"," ","S","a","h","a","r","a">>
\* "Lenina 5, Simferopol, Crimea, 295000, Ukraine"
A_crimea == <<"L","e","n","i","n","a"," ","5",","," ","S","i","m","f","e","r",
    "o","p","o","l",","," ","C","r","i","m","e","a",","," ","2","9","5","0",
    "0","0",","," ","U","k","r","a","i","n","e">>
\* "Artema 7, DONETSK, 83000"
A_donetsk == <<"A","r","t","e","m","a"," ","7",","," ","D","O","N","E","T",
    "S","K",","," ","8","3","0","0","0">>
\* "Rue 3, Es Semara 72000"
A_semara == <<"R","u","e"," ","3",","," ","E","s"," ","S","e","m","a","r","a",
    " ","7","2","0","0","0">>
\* "London"
A_single == <<"L","o","n","d","o","n">>
\* "1 High Street, London, "
A_nocountry == <<"1"," ","H","i","g","h"," ","S","t","r","e","e","t",","," ",
    "L","o","n","d","o","n",","," ">>
\* "United Kingdom"
SeedUnitedKingdom == <<"U","n","i","t","e","d"," ","K","i","n","g","d","o","m">>
\* "UK"
SeedUK == <<"U","K">>
\* "London"
SeedLondon == <<"L","o","n","d","o","n">>
\* "Yemen"
SeedYemen == <<"Y","e","m","e","n">>
\* "South Africa"
SeedSouthAfrica == <<"S","o","u","t","h"," ","A","f","r","i","c","a">>
\* "France"
SeedFrance == <<"F","r","a","n","c","e">>
\* "Congo, Republic of the"
SeedCongo == <<"C","o","n","g","o",","," ","R","e","p","u","b","l","i","c",
    " ","o","f"," ","t","h","e">>
\* "Western Sahara"
SeedWesternSahara == <<"W","e","s","t","e","r","n"," ","S","a","h","a","r","a">>
\* "West Sahara"
SeedWestSahara == <<"W","e","s","t"," ","S","a","h","a","r","a">>
\* "Crimea"
SeedCrimea == <<"C","r","i","m","e","a">>
\* "LUHANSK"
SeedLuhansk == <<"L","U","H","A","N","S","K">>
\* "donetsk"
SeedDonetsk == <<"d","o","n","e","t","s","k">>
\* "United Kingdom"
NameUnitedKingdom == <<"U","n","i","t","e","d"," ","K","i","n","g","d","o","m">>
\* "Yemen"
NameYemen == <<"Y","e","m","e","n">>
\* "South Africa"
NameSouthAfrica == <<"S","o","u","t","h"," ","A","f","r","i","c","a">>
\* "Republic of the Congo"
NameCongo == <<"R","e","p","u","b","l","i","c"," ","o","f"," ","t","h","e",
    " ","C","o","n","g","o">>
\* "Ukraine"
NameUkraine == <<"U","k","r","a","i","n","e">>
\* "London"
CityLondon == <<"L","o","n","d","o","n">>
\* "East London"
CityEastLondon == <<"E","a","s","t"," ","L","o","n","d","o","n">>
\* "Cape Town"
CityCapeTown == <<"C","a","p","e"," ","T","o","w","n">>
\* "Brazzaville"
CityBrazzaville == <<"B","r","a","z","z","a","v","i","l","l","e">>
\* "Sanaa"
CitySanaa == <<"S","a","n","a","a">>
\* "Simferopol"
CitySimferopol == <<"S","i","m","f","e","r","o","p","o","l">>

\* One country record and one city record of the geonamescache dataset.
\* "5 Road, 6th District, Egypt"
A_october == <<"5"," ","R","o","a","d",","," ","6","t","h"," ","D","i","s",
    "t","r","i","c","t",","," ","E","g","y","p","t">>
\* "Kaya Grandi 2, Kralendijk, Bonaire, Saint Eustatius and Saba"
A_bonaire == <<"K","a","y","a"," ","G","r","a","n","d","i"," ","2",","," ",
    "K","r","a","l","e","n","d","i","j","k",","," ","B","o","n","a","i","r",
    "e",","," ","S","a","i","n","t"," ","E","u","s","t","a","t","i","u","s",
    " ","a","n","d"," ","S","a","b","a">>
\* "110 Sejong-daero, Seoul, Korea, South"
A_korea == <<"1","1","0"," ","S","e","j","o","n","g","-","d","a","e","r","o",
    ","," ","S","e","o","u","l",","," ","K","o","r","e","a",","," ","S","o",
    "u","t","h">>
\* "Egypt"
NameEgypt == <<"E","g","y","p","t">>
\* "Bonaire, Saint Eustatius and Saba"
NameBonaire == <<"B","o","n","a","i","r","e",","," ","S","a","i","n","t"," ",
    "E","u","s","t","a","t","i","u","s"," ","a","n","d"," ","S","a","b","a">>
\* "South Korea"
NameSouthKorea == <<"S","o","u","t","h"," ","K","o","r","e","a">>
\* "6th of October City"
CityOctober == <<"6","t","h"," ","o","f"," ","O","c","t","o","b","e","r"," ",
    "C","i","t","y">>
\* "Kralendijk"
CityKralendijk == <<"K","r","a","l","e","n","d","i","j","k">>
\* "Seoul"
CitySeoul == <<"S","e","o","u","l">>

\* "1 High Street, Greater London, United Kingdom"
A_greater == <<"1"," ","H","i","g","h"," ","S","t","r","e","e","t",","," ",
    "G","r","e","a","t","e","r"," ","L","o","n","d","o","n",","," ","U","n",
    "i","t","e","d"," ","K","i","n","g","d","o","m">>
\* "5 Main Road, East London, Cape Town, South Africa"
A_two_cities == <<"5"," ","M","a","i","n"," ","R","o","a","d",","," ","E","a",
    "s","t"," ","L","o","n","d","o","n",","," ","C","a","p","e"," ","T","o",
    "w","n",","," ","S","o","u","t","h"," ","A","f","r","i","c","a">>

Country(code, name) == [code |-> code, name |-> name]
City(countrycode, name) == [countrycode |-> countrycode, name |-> name]

\* A dataset as get_countries() / get_cities() give it.  "East London" is a
\* city of South Africa, "London" one of the United Kingdom only.
GeonamesSmall ==
    [ok |-> TRUE,
     countries |-> <<Country("GB", NameUnitedKingdom), Country("YE", NameYemen),
                     Country("ZA", NameSouthAfrica), Country("CG", NameCongo),
                     Country("UA", NameUkraine)>>,
     cities |-> <<City("GB", CityLondon), City("ZA", CityEastLondon),
                  City("ZA", CityCapeTown), City("CG", CityBrazzaville),
                  City("YE", CitySanaa), City("UA", CitySimferopol)>>]
\* A dataset that knows the countries and no city.
GeonamesNoCities ==
    [ok |-> TRUE, countries |-> GeonamesSmall.countries, cities |-> <<>>]
\* A dataset that cannot be loaded: GeonamesCache(), get_cities() or
\* get_countries() raises.
GeonamesBroken ==
    [ok |-> FALSE, countries |-> <<>>, cities |-> <<>>]

\* GeonamesSmall and three more countries: one with a city whose name
\* begins with a digit, one whose name holds a comma, one that
\* COUNTRY_MAPPING has a two-segment alias for.
GeonamesWide ==
    [ok |-> TRUE,
     countries |-> GeonamesSmall.countries
                     \o <<Country("EG", NameEgypt), Country("BQ", NameBonaire),
                          Country("KR", NameSouthKorea)>>,
     cities |-> GeonamesSmall.cities
                     \o <<City("EG", CityOctober), City("BQ", CityKralendijk),
                          City("KR", CitySeoul)>>]

Gazetteers == {GeonamesSmall, GeonamesNoCities, GeonamesBroken}

GeneratedAddresses ==
    {A_london, A_london_uk, A_yemen6, A_cape, A_congo, A_laayoune, A_crimea,
     A_donetsk, A_semara, A_single, A_nocountry, <<>>}

\* The addresses extract_city_country is given when called on its own.
ExtractAddresses ==
    GeneratedAddresses \cup {A_october, A_bonaire, A_korea, A_greater, A_two_cities}

SeedAddresses ==
    {SeedUnitedKingdom, SeedUK, SeedLondon, SeedYemen, SeedSouthAfrica,
     SeedFrance, SeedCongo, SeedWesternSahara, SeedWestSahara, SeedCrimea,
     SeedLuhansk, SeedDonetsk, <<>>}

-----------------------------------------------------------------------------
VARIABLES
    geonames,          \* the dataset the geonamescache package holds
    pc,                \* position of the caller
    call,              \* the top-level call in progress: function and arguments
    ret,               \* what the call returned or raised
    address,           \* check_with_nominatim: the query
    response,          \* the external search's answer to the request
    results,           \* check_with_nominatim: response.json()
    filtered_results,  \* check_with_nominatim: the results that pass the filter
    total_area,        \* check_with_nominatim: the summed bounding-box area
    requests,          \* external search requests issued by the call so far
    passed,            \* validate_nominatim_result: the checks passed so far
    _geonames_cache,   \* module global: "None" or the GeonamesCache object
    _cities_data,      \* module global: "None" or the cities of the dataset
    _countries_data,   \* module global: "None" or the countries of the dataset
    thread,            \* get_geonames_data: each caller's line and result
    loads,             \* datasets constructed so far in this process
    stats,             \* UAVPipeline.stats: the counters of the report
    osm_data,          \* the files of osm_data/, by country code
    pipeline,          \* UAVPipeline: the countries, the loop and its position
    uav_collection,    \* the documents of the collection 'uav'
    validated_collection, \* the documents of 'validated_addresses'
    processor,         \* WayProcessor: the way in hand and its position
    cleaner            \* UAVCleaner: the position in remove_duplicate_addresses

\* The module globals of get_geonames_data and its concurrent callers. A
\* call of the other specifications runs alone, and get_geonames_data gives
\* it what the dataset holds whether loaded or cached; the globals are
\* followed line by line in SpecLoad.
loader == <<_geonames_cache, _cities_data, _countries_data, thread, loads>>

\* The state of the scripts of uav/: the orchestration pipeline, the way
\* processor and the cleanup tool. The validator's calls leave it alone.
uav == <<stats, osm_data, pipeline, uav_collection, validated_collection,
         processor, cleaner>>

\* The state of a call of the validator (check/).
validator == <<geonames, pc, call, ret, address, response, results,
               filtered_results, total_area, requests, passed>>

vars == <<validator, loader, uav>>

\* Most callers that enter get_geonames_data at the same time.
MaxThreads == 2
Threads == 1..MaxThreads

\* Lines 66-68: the globals before the first load, no caller inside.
NotLoaded ==
    /\ _geonames_cache = "None"
    /\ _cities_data = "None"
    /\ _countries_data = "None"
    /\ thread = [t \in Threads |-> [line |-> "idle", ret |-> <<>>]]
    /\ loads = 0

\* None of the scripts of uav/ has been started.
UavIdle ==
    /\ stats = [total_countries |-> 0]
    /\ osm_data = <<>>
    /\ pipeline = [line |-> "none"]
    /\ uav_collection = {}
    /\ validated_collection = {}
    /\ processor = [line |-> "none"]
    /\ cleaner = [line |-> "none"]

\* Return values: a bool, a float (in tenths) or an exception leaving the call.
RetBool(b)   == [kind |-> "bool", val |-> b]
RetFloat(t)  == [kind |-> "float", val |-> t]
Raised(e)    == [kind |-> "raise", val |-> e]
NoRet        == [kind |-> "none", val |-> 0]

-----------------------------------------------------------------------------
(* Gazetteer lookup and the city/country extractor.                        *)

\* get_geonames_data(): the cities and the countries; raises when the
\* dataset cannot be loaded.
get_geonames_data ==
    [raises |-> ~geonames.ok, cities |-> geonames.cities,
     countries |-> geonames.countries]

\* A variant that applies the first-word rule to a single word as well.
city_in_country_any_words(city_name, country_name) ==
    IF city_name = <<>> \/ country_name = <<>> THEN FALSE
    ELSE LET data == get_geonames_data IN
    IF data.raises THEN FALSE          \* except Exception: return False
    ELSE
    LET countries == data.countries
        cities == data.cities
        city_name_lower == Lower(city_name)
        country_name_lower == Lower(country_name)
        found == {i \in DOMAIN countries :
                     Strip(Lower(countries[i].name)) = Strip(country_name_lower)}
    IN  IF found = {} THEN FALSE
        ELSE
        LET country_code ==
                countries[CHOOSE i \in found : \A j \in found : i <= j].code
            city_words == SplitWords(city_name_lower)
        IN  \E i \in DOMAIN cities :
              /\ cities[i].countrycode = country_code
              /\ LET city_data_name == Lower(cities[i].name)
                 IN  \/ Strip(city_data_name) = Strip(city_name_lower)
                     \/ Len(city_words) >= 1
                          /\ StartsWith(city_data_name, city_words[1])
                     \/ Len(city_words) >= 2
                          /\ Contains(city_data_name, city_words[2])

\* city_in_country(city_name, country_name).
city_in_country(city_name, country_name) ==
    IF city_name = <<>> \/ country_name = <<>> THEN FALSE
    ELSE LET data == get_geonames_data IN
    IF data.raises THEN FALSE          \* except Exception: return False
    ELSE
    LET countries == data.countries
        cities == data.cities
        city_name_lower == Lower(city_name)
        country_name_lower == Lower(country_name)
        found == {i \in DOMAIN countries :
                     Strip(Lower(countries[i].name)) = Strip(country_name_lower)}
    IN  IF found = {} THEN FALSE
        ELSE
        LET country_code ==
                countries[CHOOSE i \in found : \A j \in found : i <= j].code
            city_words == SplitWords(city_name_lower)
        IN  \E i \in DOMAIN cities :
              /\ cities[i].countrycode = country_code
              /\ LET city_data_name == Lower(cities[i].name)
                 IN  \/ Strip(city_data_name) = Strip(city_name_lower)
                     \/ Len(city_words) >= 2
                          /\ StartsWith(city_data_name, city_words[1])
                     \/ Len(city_words) >= 2
                          /\ Contains(city_data_name, city_words[2])

RECURSIVE Flatten(_)
Flatten(ss) == IF ss = <<>> THEN <<>> ELSE Head(ss) \o Flatten(Tail(ss))

\* A variant that tries the two-word string before the single word.
WordCandidates_pair_first(words) ==
    Flatten([k \in 1..Len(words) |->
        IF k = 1 THEN <<words[k]>>
        ELSE <<words[k - 1] \o <<" ">> \o words[k], words[k]>>])

\* The candidates of one segment in the order the loops of lines 148-157
\* produce them: at each word the word itself, then previous + current.
WordCandidates(words) ==
    Flatten([k \in 1..Len(words) |->
        IF k = 1 THEN <<words[k]>>
        ELSE <<words[k], words[k - 1] \o <<" ">> \o words[k]>>])

\* The candidates of all segments left of the country, nearest segment
\* first (for i in range(exclude_count + 1, len(parts) + 1): parts[-i]).
CityCandidates(parts, exclude_count) ==
    Flatten([j \in 1..(Len(parts) - exclude_count) |->
        WordCandidates(SplitWords(parts[Len(parts) - exclude_count - j + 1]))])

\* A variant that takes the two-segment country whenever the flag is set.
extract_city_country_two_always(addr, two_parts) ==
    IF addr = <<>> THEN <<<<>>, <<>>>>
    ELSE
    LET raw == Split(Lower(addr), ",")
        parts == [i \in 1..Len(raw) |-> Strip(raw[i])]
    IN  IF Len(parts) < 2 THEN <<<<>>, <<>>>>
        ELSE
        LET last_part == parts[Len(parts)]
            single_part_normalized == MappingGet(last_part)
            two_part_raw == parts[Len(parts) - 1] \o <<",", " ">> \o parts[Len(parts)]
            two_part_normalized == MappingGet(two_part_raw)
            used_two_parts_for_country ==
                two_parts /\ Len(parts) >= 2 /\ two_part_normalized # <<>>
            normalized_country ==
                IF used_two_parts_for_country THEN two_part_normalized
                ELSE single_part_normalized
            country_checking_name == normalized_country
            exclude_count == IF used_two_parts_for_country THEN 2 ELSE 1
        IN  IF normalized_country = <<>> THEN <<<<>>, <<>>>>
            ELSE
            LET cands == SelectSeq(CityCandidates(parts, exclude_count),
                                   LAMBDA c : ~HasDigit(c))
                hits == {k \in DOMAIN cands :
                            city_in_country(cands[k], country_checking_name)}
            IN  IF hits = {} THEN <<<<>>, normalized_country>>
                ELSE <<cands[CHOOSE k \in hits : \A m \in hits : k <= m],
                       normalized_country>>

\* A variant that also tests the candidates holding a digit.
extract_city_country_digits(addr, two_parts) ==
    IF addr = <<>> THEN <<<<>>, <<>>>>
    ELSE
    LET raw == Split(Lower(addr), ",")
        parts == [i \in 1..Len(raw) |-> Strip(raw[i])]
    IN  IF Len(parts) < 2 THEN <<<<>>, <<>>>>
        ELSE
        LET last_part == parts[Len(parts)]
            single_part_normalized == MappingGet(last_part)
            two_part_raw == parts[Len(parts) - 1] \o <<",", " ">> \o parts[Len(parts)]
            two_part_normalized == MappingGet(two_part_raw)
            used_two_parts_for_country ==
                two_parts /\ Len(parts) >= 2 /\ two_part_raw # two_part_normalized
                          /\ two_part_normalized # <<>>
            normalized_country ==
                IF used_two_parts_for_country THEN two_part_normalized
                ELSE single_part_normalized
            country_checking_name == normalized_country
            exclude_count == IF used_two_parts_for_country THEN 2 ELSE 1
        IN  IF normalized_country = <<>> THEN <<<<>>, <<>>>>
            ELSE
            LET cands == CityCandidates(parts, exclude_count)
                hits == {k \in DOMAIN cands :
                            city_in_country(cands[k], country_checking_name)}
            IN  IF hits = {} THEN <<<<>>, normalized_country>>
                ELSE <<cands[CHOOSE k \in hits : \A m \in hits : k <= m],
                       normalized_country>>

\* Returns <<city, country>>.
extract_city_country(addr, two_parts) ==
    IF addr = <<>> THEN <<<<>>, <<>>>>
    ELSE
    LET raw == Split(Lower(addr), ",")
        parts == [i \in 1..Len(raw) |-> Strip(raw[i])]
    IN  IF Len(parts) < 2 THEN <<<<>>, <<>>>>
        ELSE
        LET last_part == parts[Len(parts)]
            single_part_normalized == MappingGet(last_part)
            two_part_raw == parts[Len(parts) - 1] \o <<",", " ">> \o parts[Len(parts)]
            two_part_normalized == MappingGet(two_part_raw)
            used_two_parts_for_country ==
                two_parts /\ Len(parts) >= 2 /\ two_part_raw # two_part_normalized
                          /\ two_part_normalized # <<>>
            normalized_country ==
                IF used_two_parts_for_country THEN two_part_normalized
                ELSE single_part_normalized
            country_checking_name == normalized_country
            exclude_count == IF used_two_parts_for_country THEN 2 ELSE 1
        IN  IF normalized_country = <<>> THEN <<<<>>, <<>>>>
            ELSE
            LET cands == SelectSeq(CityCandidates(parts, exclude_count),
                                   LAMBDA c : ~HasDigit(c))
                hits == {k \in DOMAIN cands :
                            city_in_country(cands[k], country_checking_name)}
            IN  IF hits = {} THEN <<<<>>, normalized_country>>
                ELSE <<cands[CHOOSE k \in hits : \A m \in hits : k <= m],
                       normalized_country>>

-----------------------------------------------------------------------------
(* Region validator.                                                       *)

WESTERN_SAHARA_CITIES == <<
    <<"l","a","a","y","o","u","n","e">>,
    <<"d","a","k","h","l","a">>,
    <<"b","o","u","j","d","o","u","r">>,
    <<"e","s"," ","s","e","m","a","r","a">>,
    <<"s","a","h","r","a","w","i">>,
    <<"t","i","f","a","r","i","t","i">>,
    <<"a","o","u","s","s","e","r","d">>>>

WESTERN_SAHARA_SEEDS == <<
    <<"w","e","s","t"," ","s","a","h","a","r","a">>,
    <<"w","e","s","t","e","r","n"," ","s","a","h","a","r","a">>>>

OTHER_SPECIAL_REGIONS == <<
    <<"l","u","h","a","n","s","k">>,
    <<"c","r","i","m","e","a">>,
    <<"d","o","n","e","t","s","k">>>>

\* A variant that searches the address as written, not lowercased.
check_western_sahara_cities_cased(generated_address) ==
    IF generated_address = <<>> THEN FALSE
    ELSE \E i \in DOMAIN WESTERN_SAHARA_CITIES :
             Contains(generated_address, WESTERN_SAHARA_CITIES[i])

check_western_sahara_cities(generated_address) ==
    IF generated_address = <<>> THEN FALSE
    ELSE LET gen_lower == Lower(generated_address)
         IN  \E i \in DOMAIN WESTERN_SAHARA_CITIES :
                 Contains(gen_lower, WESTERN_SAHARA_CITIES[i])

\* A variant that searches the address as written, not lowercased.
special_region_match_cased(generated_address, seed_lower) ==
    Contains(generated_address, seed_lower)

\* Lines 378-381: the seed is one of OTHER_SPECIAL_REGIONS.
special_region_match(generated_address, seed_lower) ==
    LET gen_lower == Lower(generated_address)
    IN  Contains(gen_lower, seed_lower)

\* A variant without the "no city was extracted" rejection.
region_match_no_city_check(generated_address, seed_address) ==
    LET gen == extract_city_country(generated_address,
                                    Contains(seed_address, <<",">>))
        gen_country == gen[2]
    IN  IF gen_country = <<>> THEN FALSE
        ELSE \/ gen[1] = Lower(seed_address)
             \/ gen_country = Lower(seed_address)
             \/ gen_country = MappingGet(Lower(seed_address))

\* Lines 383-407: the seed is an ordinary city or country name.
region_match(generated_address, seed_address) ==
    LET gen == extract_city_country(generated_address,
                                    Contains(seed_address, <<",">>))
        gen_city == gen[1]
        gen_country == gen[2]
        seed_address_lower == Lower(seed_address)
        seed_address_mapped == MappingGet(Lower(seed_address))
    IN  IF gen_city = <<>> THEN FALSE
        ELSE IF gen_country = <<>> THEN FALSE
        ELSE
        LET city_match == gen_city = seed_address_lower
            country_match == gen_country = seed_address_lower
            mapped_match == gen_country = seed_address_mapped
        IN  city_match \/ country_match \/ mapped_match

validate_address_region(generated_address, seed_address) ==
    IF generated_address = <<>> \/ seed_address = <<>> THEN FALSE
    ELSE
    LET seed_lower == Lower(seed_address) IN
    IF seed_lower \in Range(WESTERN_SAHARA_SEEDS)
    THEN check_western_sahara_cities(generated_address)
    ELSE IF seed_lower \in Range(OTHER_SPECIAL_REGIONS)
    THEN special_region_match(generated_address, seed_lower)
    ELSE region_match(generated_address, seed_address)

-----------------------------------------------------------------------------
(* The region validator called on its own: validate_address_region          *)
(* (generated_address, seed_address) over every candidate, seed and        *)
(* dataset.                                                                *)

InitRegion ==
    /\ geonames \in Gazetteers
    /\ NotLoaded
    /\ UavIdle
    /\ pc = "idle"
    /\ call = [fn |-> "none"]
    /\ ret = NoRet
    /\ address = <<>>
    /\ response = [kind |-> "none", results |-> <<>>]
    /\ results = <<>>
    /\ filtered_results = <<>>
    /\ total_area = 0
    /\ requests = 0
    /\ passed = <<>>

CallRegion ==
    /\ pc = "idle"
    /\ \E gen \in GeneratedAddresses, seed \in SeedAddresses :
         /\ call' = [fn |-> "validate_address_region",
                     generated_address |-> gen, seed_address |-> seed]
         /\ ret' = RetBool(validate_address_region(gen, seed))
    /\ pc' = "returned"
    /\ UNCHANGED <<loader, uav, geonames, address, response, results, filtered_results,
                   total_area, requests, passed>>

\* The caller goes on to its next call.
NextCall ==
    /\ pc = "returned"
    /\ pc' = "idle"
    /\ call' = [fn |-> "none"]
    /\ ret' = NoRet
    /\ address' = <<>>
    /\ response' = [kind |-> "none", results |-> <<>>]
    /\ results' = <<>>
    /\ filtered_results' = <<>>
    /\ total_area' = 0
    /\ requests' = 0
    /\ passed' = <<>>
    /\ UNCHANGED <<loader, uav, geonames>>

NextRegion == CallRegion \/ NextCall

SpecRegion == InitRegion /\ [][NextRegion]_vars

-----------------------------------------------------------------------------
(* get_geonames_data, lines 171-184, entered by several callers of one     *)
(* process at the same time. The function takes no lock, so the callers'   *)
(* lines interleave freely.                                                *)

InitLoad ==
    /\ geonames \in {GeonamesSmall, GeonamesBroken}
    /\ NotLoaded
    /\ UavIdle
    /\ pc = "idle"
    /\ call = [fn |-> "none"]
    /\ ret = NoRet
    /\ address = <<>>
    /\ response = [kind |-> "none", results |-> <<>>]
    /\ results = <<>>
    /\ filtered_results = <<>>
    /\ total_area = 0
    /\ requests = 0
    /\ passed = <<>>

\* The caller t moves to a line, the other callers stay where they are.
GoTo(t, line) == thread' = [thread EXCEPT ![t].line = line]

\* What a step of get_geonames_data leaves alone.
CallerUnchanged == UNCHANGED <<validator, uav>>

\* Line 171: a caller enters the function.
Enter(t) ==
    /\ thread[t].line = "idle"
    /\ GoTo(t, "175")
    /\ UNCHANGED <<_geonames_cache, _cities_data, _countries_data, loads>>
    /\ CallerUnchanged

\* Line 175: if _geonames_cache is None.
TestCache(t) ==
    /\ thread[t].line = "175"
    /\ IF _geonames_cache = "None" THEN GoTo(t, "178") ELSE GoTo(t, "184")
    /\ UNCHANGED <<_geonames_cache, _cities_data, _countries_data, loads>>
    /\ CallerUnchanged

\* Line 178, right-hand side: geonamescache.GeonamesCache() builds the
\* dataset; the exception of a dataset that cannot be loaded leaves the
\* function.
Construct(t) ==
    /\ thread[t].line = "178"
    /\ IF geonames.ok
       THEN /\ loads' = loads + 1
            /\ GoTo(t, "178 store")
       ELSE /\ thread' = [thread EXCEPT ![t] =
                             [line |-> "raised", ret |-> <<>>]]
            /\ UNCHANGED loads
    /\ UNCHANGED <<_geonames_cache, _cities_data, _countries_data>>
    /\ CallerUnchanged

\* Line 178, assignment: _geonames_cache = the new object.
StoreCache(t) ==
    /\ thread[t].line = "178 store"
    /\ _geonames_cache' = "GeonamesCache"
    /\ GoTo(t, "179")
    /\ UNCHANGED <<_cities_data, _countries_data, loads>>
    /\ CallerUnchanged

\* Line 179: _cities_data = _geonames_cache.get_cities()
GetCities(t) ==
    /\ thread[t].line = "179"
    /\ _cities_data' = "cities"
    /\ GoTo(t, "180")
    /\ UNCHANGED <<_geonames_cache, _countries_data, loads>>
    /\ CallerUnchanged

\* Line 180: _countries_data = _geonames_cache.get_countries()
GetCountries(t) ==
    /\ thread[t].line = "180"
    /\ _countries_data' = "countries"
    /\ GoTo(t, "184")
    /\ UNCHANGED <<_geonames_cache, _cities_data, loads>>
    /\ CallerUnchanged

\* Line 184: return _cities_data, _countries_data
ReturnData(t) ==
    /\ thread[t].line = "184"
    /\ thread' = [thread EXCEPT ![t] =
                     [line |-> "returned",
                      ret |-> <<_cities_data, _countries_data>>]]
    /\ UNCHANGED <<_geonames_cache, _cities_data, _countries_data, loads>>
    /\ CallerUnchanged

NextLoad ==
    \E t \in Threads :
        \/ Enter(t)
        \/ TestCache(t)
        \/ Construct(t)
        \/ StoreCache(t)
        \/ GetCities(t)
        \/ GetCountries(t)
        \/ ReturnData(t)

SpecLoad == InitLoad /\ [][NextLoad]_vars

-----------------------------------------------------------------------------
(* The gazetteer lookup called on its own: city_in_country(city_name,      *)
(* country_name) over candidates, country names and datasets.              *)

\* The candidates and the country names city_in_country is given when
\* called on its own.
CityNameInputs ==
    {\* ""
     <<>>,
     \* "London"
     <<"L","o","n","d","o","n">>,
     \* "LONDON"
     <<"L","O","N","D","O","N">>,
     \* " london "
     <<" ","l","o","n","d","o","n"," ">>,
     \* "lond"
     <<"l","o","n","d">>,
     \* "East London"
     <<"E","a","s","t"," ","L","o","n","d","o","n">>,
     \* "london bridge"
     <<"l","o","n","d","o","n"," ","b","r","i","d","g","e">>,
     \* "greater london"
     <<"g","r","e","a","t","e","r"," ","l","o","n","d","o","n">>,
     \* "cape"
     <<"c","a","p","e">>,
     \* "cape x"
     <<"c","a","p","e"," ","x">>,
     \* "x town"
     <<"x"," ","t","o","w","n">>,
     \* "town"
     <<"t","o","w","n">>,
     \* "x london"
     <<"x"," ","l","o","n","d","o","n">>,
     \* "Seoul"
     <<"S","e","o","u","l">>}

CountryNameInputs ==
    {\* ""
     <<>>,
     \* " South Africa "
     <<" ","S","o","u","t","h"," ","A","f","r","i","c","a"," ">>,
     \* "United Kingdom"
     <<"U","n","i","t","e","d"," ","K","i","n","g","d","o","m">>,
     \* "united kingdom"
     <<"u","n","i","t","e","d"," ","k","i","n","g","d","o","m">>,
     \* "UK"
     <<"U","K">>,
     \* "France"
     <<"F","r","a","n","c","e">>,
     \* "South Korea"
     <<"S","o","u","t","h"," ","K","o","r","e","a">>}

InitCity ==
    /\ geonames \in Gazetteers \cup {GeonamesWide}
    /\ NotLoaded
    /\ UavIdle
    /\ pc = "idle"
    /\ call = [fn |-> "none"]
    /\ ret = NoRet
    /\ address = <<>>
    /\ response = [kind |-> "none", results |-> <<>>]
    /\ results = <<>>
    /\ filtered_results = <<>>
    /\ total_area = 0
    /\ requests = 0
    /\ passed = <<>>

CallCity ==
    /\ pc = "idle"
    /\ \E city_name \in CityNameInputs, country_name \in CountryNameInputs :
         /\ call' = [fn |-> "city_in_country", city_name |-> city_name,
                     country_name |-> country_name]
         /\ ret' = RetBool(city_in_country(city_name, country_name))
    /\ pc' = "returned"
    /\ UNCHANGED <<loader, uav, geonames, address, response, results,
                   filtered_results, total_area, requests, passed>>

NextCity == CallCity \/ NextCall

SpecCity == InitCity /\ [][NextCity]_vars

-----------------------------------------------------------------------------
(* Country normalisation on its own: COUNTRY_MAPPING.get(x, x) of either   *)
(* file over the alias keys, the alias targets and the seeds.              *)

\* check/address_check.py: COUNTRY_MAPPING.get(key, key)
MappingGet_check(key) ==
    IF \E i \in DOMAIN COUNTRY_MAPPING_check : COUNTRY_MAPPING_check[i][1] = key
    THEN COUNTRY_MAPPING_check[CHOOSE i \in DOMAIN COUNTRY_MAPPING_check :
                                   COUNTRY_MAPPING_check[i][1] = key][2]
    ELSE key

NormalizeInputs ==
    {COUNTRY_MAPPING[i][1] : i \in DOMAIN COUNTRY_MAPPING}
      \cup {COUNTRY_MAPPING[i][2] : i \in DOMAIN COUNTRY_MAPPING}
      \cup SeedAddresses
      \cup {Lower(s) : s \in SeedAddresses}

RetStr(s) == [kind |-> "str", val |-> s]

InitNormalize ==
    /\ geonames = GeonamesSmall
    /\ NotLoaded
    /\ UavIdle
    /\ pc = "idle"
    /\ call = [fn |-> "none"]
    /\ ret = NoRet
    /\ address = <<>>
    /\ response = [kind |-> "none", results |-> <<>>]
    /\ results = <<>>
    /\ filtered_results = <<>>
    /\ total_area = 0
    /\ requests = 0
    /\ passed = <<>>

CallNormalize ==
    /\ pc = "idle"
    /\ \E key \in NormalizeInputs :
         \/ /\ call' = [fn |-> "COUNTRY_MAPPING.get", module |-> "address",
                         key |-> key]
             /\ ret' = RetStr(MappingGet(key))
         \/ /\ call' = [fn |-> "COUNTRY_MAPPING.get",
                         module |-> "address_check", key |-> key]
             /\ ret' = RetStr(MappingGet_check(key))
    /\ pc' = "returned"
    /\ UNCHANGED <<loader, uav, geonames, address, response, results, filtered_results,
                   total_area, requests, passed>>

NextNormalize == CallNormalize \/ NextCall

SpecNormalize == InitNormalize /\ [][NextNormalize]_vars

-----------------------------------------------------------------------------
(* The extractor called on its own: extract_city_country(address,          *)
(* two_parts) over every address, both values of the flag and every        *)
(* dataset.                                                                *)

RetPair(city, country) == [kind |-> "pair", val |-> <<city, country>>]

InitExtract ==
    /\ geonames \in Gazetteers \cup {GeonamesWide}
    /\ NotLoaded
    /\ UavIdle
    /\ pc = "idle"
    /\ call = [fn |-> "none"]
    /\ ret = NoRet
    /\ address = <<>>
    /\ response = [kind |-> "none", results |-> <<>>]
    /\ results = <<>>
    /\ filtered_results = <<>>
    /\ total_area = 0
    /\ requests = 0
    /\ passed = <<>>

CallExtract ==
    /\ pc = "idle"
    /\ \E a \in ExtractAddresses, two_parts \in BOOLEAN :
         LET got == extract_city_country(a, two_parts)
         IN  /\ call' = [fn |-> "extract_city_country", address |-> a,
                         two_parts |-> two_parts]
             /\ ret' = RetPair(got[1], got[2])
    /\ pc' = "returned"
    /\ UNCHANGED <<loader, uav, geonames, address, response, results, filtered_results,
                   total_area, requests, passed>>

NextExtract == CallExtract \/ NextCall

SpecExtract == InitExtract /\ [][NextExtract]_vars

-----------------------------------------------------------------------------
(* Address shape filter of check/address.py.                               *)

\* A variant of the list without the two guillemets.
special_chars_no_guillemets ==
    <<"u0060", ":", "%", "@", "*", "^", "[", "]", "{", "}", "_">>

special_chars ==
    <<"u0060", ":", "%", "@", "*", "^", "[", "]", "{", "}", "_", "u00AB", "u00BB">>

\* re.sub(r'[^\w]', '', s, flags=re.UNICODE)
WordChars(s) == SelectSeq(s, IsWord)

\* len(re.findall(r'[^\W\d]', s, flags=re.UNICODE)): the word characters
\* that are no digit.
LetterCount(s) == Cardinality({i \in 1..Len(s) : IsWord(s[i]) /\ ~IsDigit(s[i])})

\* re.match(r"^[^a-zA-Z]*$", s)
NoAsciiLetter(s) == \A i \in 1..Len(s) : ~IsAsciiLetter(s[i])

\* A variant that asks for one comma only.
looks_like_address_one_comma(addr) ==
    LET a == Lower(Strip(addr))
        address_len == WordChars(Strip(a))
        letter_count == LetterCount(a)
        address_for_number_count == RemoveChar(RemoveChar(a, "-"), ";")
        raw_sections == Split(address_for_number_count, ",")
        sections == [i \in DOMAIN raw_sections |-> Strip(raw_sections[i])]
        sections_with_numbers ==
            SelectSeq(sections, LAMBDA section : DigitGroups(section) # {})
    IN  IF Len(address_len) < 30 THEN FALSE
        ELSE IF Len(address_len) > 300 THEN FALSE
        ELSE IF letter_count < 20 THEN FALSE
        ELSE IF NoAsciiLetter(a) THEN FALSE
        ELSE IF Cardinality(Range(a)) < 5 THEN FALSE
        ELSE IF Len(sections_with_numbers) < 1 THEN FALSE
        ELSE IF Count(a, ",") < 1 THEN FALSE
        ELSE IF \E i \in DOMAIN special_chars : Contains(a, <<special_chars[i]>>)
             THEN FALSE
        ELSE TRUE

looks_like_address(addr) ==
    LET a == Lower(Strip(addr))
        address_len == WordChars(Strip(a))
        letter_count == LetterCount(a)
        address_for_number_count == RemoveChar(RemoveChar(a, "-"), ";")
        raw_sections == Split(address_for_number_count, ",")
        sections == [i \in DOMAIN raw_sections |-> Strip(raw_sections[i])]
        sections_with_numbers ==
            SelectSeq(sections, LAMBDA section : DigitGroups(section) # {})
    IN  IF Len(address_len) < 30 THEN FALSE
        ELSE IF Len(address_len) > 300 THEN FALSE
        ELSE IF letter_count < 20 THEN FALSE
        ELSE IF NoAsciiLetter(a) THEN FALSE
        ELSE IF Cardinality(Range(a)) < 5 THEN FALSE
        ELSE IF Len(sections_with_numbers) < 1 THEN FALSE
        ELSE IF Count(a, ",") < 2 THEN FALSE
        ELSE IF \E i \in DOMAIN special_chars : Contains(a, <<special_chars[i]>>)
             THEN FALSE
        ELSE TRUE

\* A variant of the second list that leaves "$" out.
special_chars_check_no_dollar ==
    <<"u0060", ":", "%", "@", "*", "^", "[", "]", "{", "}", "_", "u00AB",
      "u00BB">>

\* check/address_check.py, line 290: the same list with "$" added.
special_chars_check ==
    <<"u0060", ":", "%", "$", "@", "*", "^", "[", "]", "{", "}", "_", "u00AB",
      "u00BB">>

\* check/address_check.py, lines 251-303: the same filter over its own list.
looks_like_address_check(addr) ==
    LET a == Lower(Strip(addr))
        address_len == WordChars(Strip(a))
        letter_count == LetterCount(a)
        address_for_number_count == RemoveChar(RemoveChar(a, "-"), ";")
        raw_sections == Split(address_for_number_count, ",")
        sections == [i \in DOMAIN raw_sections |-> Strip(raw_sections[i])]
        sections_with_numbers ==
            SelectSeq(sections, LAMBDA section : DigitGroups(section) # {})
    IN  IF Len(address_len) < 30 THEN FALSE
        ELSE IF Len(address_len) > 300 THEN FALSE
        ELSE IF letter_count < 20 THEN FALSE
        ELSE IF NoAsciiLetter(a) THEN FALSE
        ELSE IF Cardinality(Range(a)) < 5 THEN FALSE
        ELSE IF Len(sections_with_numbers) < 1 THEN FALSE
        ELSE IF Count(a, ",") < 2 THEN FALSE
        ELSE IF \E i \in DOMAIN special_chars_check : Contains(a, <<special_chars_check[i]>>)
             THEN FALSE
        ELSE TRUE

-----------------------------------------------------------------------------
(* The shape filter of either file called on its own, over addresses put   *)
(* together from a leading token, a repeated word, commas and one further  *)
(* character.                                                              *)

\* "Street"
W_street == <<"S","t","r","e","e","t">>
\* Arabic "al-yaman"
W_arabic == <<"u0627","u0644","u064A","u0645","u0646">>
\* Cyrillic "YAya"
W_cyrillic == <<"u042F","u044F","u042F","u044F","u042F","u044F">>
\* "aaaaaa"
W_same == <<"a","a","a","a","a","a">>

ShapeWords == {W_street, W_arabic, W_cyrillic, W_same}
\* House number, a road name with a Latin letter, or no leading token.
ShapeTokens == {<<"1","2">>, <<"M","1","6">>, <<"1","1">>, <<>>}
\* One further character at the end: none, a special character, or "$".
ShapeExtras ==
    {<<>>} \cup {<<c>> : c \in {"u0060", ":", "%", "@", "*", "^", "[", "]", "{",
                                "}", "_", "u00AB", "u00BB", "$"}}

\* Longest address, in words, that the filter is given.
MaxShapeWords == 52
ShapeLengths == {2, 6, MaxShapeWords}
\* Most commas an address is given.
MaxCommas == 3

\* token + n words; the first `commas` gaps are ", ", the others " ".
RECURSIVE Repeat(_, _, _, _)
Repeat(word, n, commas, k) ==
    IF k > n THEN <<>>
    ELSE (IF k <= commas THEN <<",", " ">> ELSE <<" ">>) \o word
            \o Repeat(word, n, commas, k + 1)

ShapeAddress(token, word, n, commas, extra) ==
    token \o Repeat(word, n, commas, 1) \o extra

InitShape ==
    /\ geonames = GeonamesSmall
    /\ NotLoaded
    /\ UavIdle
    /\ pc = "idle"
    /\ call = [fn |-> "none"]
    /\ ret = NoRet
    /\ address = <<>>
    /\ response = [kind |-> "none", results |-> <<>>]
    /\ results = <<>>
    /\ filtered_results = <<>>
    /\ total_area = 0
    /\ requests = 0
    /\ passed = <<>>

CallShape ==
    /\ pc = "idle"
    /\ \E token \in ShapeTokens, word \in ShapeWords, n \in ShapeLengths,
          commas \in 0..MaxCommas, extra \in ShapeExtras :
         LET a == ShapeAddress(token, word, n, commas, extra)
         IN  \/ /\ call' = [fn |-> "looks_like_address", module |-> "address",
                             address |-> a]
                 /\ ret' = RetBool(looks_like_address(a))
             \/ /\ call' = [fn |-> "looks_like_address",
                             module |-> "address_check", address |-> a]
                 /\ ret' = RetBool(looks_like_address_check(a))
    /\ pc' = "returned"
    /\ UNCHANGED <<loader, uav, geonames, address, response, results, filtered_results,
                   total_area, requests, passed>>

NextShape == CallShape \/ NextCall

SpecShape == InitShape /\ [][NextShape]_vars

-----------------------------------------------------------------------------
(* Properties of the region validator (SpecRegion).                        *)

\* The special region names and the locality whitelist as spec.md 4.5
\* lists them.
WhitelistNames ==
    {<<"l","a","a","y","o","u","n","e">>,
     <<"d","a","k","h","l","a">>,
     <<"b","o","u","j","d","o","u","r">>,
     <<"e","s"," ","s","e","m","a","r","a">>,
     <<"s","a","h","r","a","w","i">>,
     <<"t","i","f","a","r","i","t","i">>,
     <<"a","o","u","s","s","e","r","d">>}

WesternSaharaNames ==
    {<<"w","e","s","t"," ","s","a","h","a","r","a">>,
     <<"w","e","s","t","e","r","n"," ","s","a","h","a","r","a">>}

DisputedNames ==
    {<<"l","u","h","a","n","s","k">>,
     <<"c","r","i","m","e","a">>,
     <<"d","o","n","e","t","s","k">>}

RegionReturned == pc = "returned" /\ call.fn = "validate_address_region"

\* C7: for a seed that is none of the special region names,
\* validate_address_region is false whenever the extractor (run with the
\* two-segment flag set iff the seed holds a comma) gives an empty city or
\* an empty country, and otherwise is true iff the city equals the
\* lowercased seed, or the country equals the lowercased seed or the
\* alias-normalized lowercased seed.
C7_OrdinarySeedRule ==
    (RegionReturned
        /\ Lower(call.seed_address) \notin WesternSaharaNames \cup DisputedNames)
    =>  LET seed == call.seed_address
            lowered == Lower(seed)
            flag == \E i \in DOMAIN seed : seed[i] = ","
            got == extract_city_country(call.generated_address, flag)
        IN  ret.val = IF got[1] = <<>> \/ got[2] = <<>> THEN FALSE
                      ELSE \/ got[1] = lowered
                           \/ got[2] = lowered
                           \/ got[2] = MappingGet(lowered)

\* The extracted country equals the seed, no city was extracted, and the
\* validator said no.
C7_Witness ==
    /\ RegionReturned
    /\ Lower(call.seed_address) \notin WesternSaharaNames \cup DisputedNames
    /\ LET got == extract_city_country(call.generated_address, FALSE)
       IN  got[1] = <<>> /\ got[2] # <<>> /\ got[2] = Lower(call.seed_address)
    /\ ret.val = FALSE

\* C8: for the seed "west sahara" or "western sahara" (lowercased),
\* validate_address_region is true iff a whitelist name is a substring of
\* the lowercased candidate, whatever the gazetteer holds.
C8_WesternSaharaRule ==
    (RegionReturned /\ Lower(call.seed_address) \in WesternSaharaNames)
    =>  ret.val = \E name \in WhitelistNames :
                      Contains(Lower(call.generated_address), name)

\* A Western Sahara seed accepted while the gazetteer cannot be loaded.
C8_Witness ==
    /\ RegionReturned
    /\ Lower(call.seed_address) \in WesternSaharaNames
    /\ geonames = GeonamesBroken
    /\ ret.val = TRUE

\* C9: for the seed "luhansk", "crimea" or "donetsk" (lowercased),
\* validate_address_region is true iff the lowercased seed is a substring
\* of the lowercased candidate, whatever the gazetteer holds.
C9_DisputedRegionRule ==
    (RegionReturned /\ Lower(call.seed_address) \in DisputedNames)
    =>  ret.val = Contains(Lower(call.generated_address),
                           Lower(call.seed_address))

\* A disputed-region seed accepted for a candidate that the extractor
\* gives no city for.
C9_Witness ==
    /\ RegionReturned
    /\ Lower(call.seed_address) \in DisputedNames
    /\ geonames = GeonamesNoCities
    /\ extract_city_country(call.generated_address, FALSE)[1] = <<>>
    /\ ret.val = TRUE

-----------------------------------------------------------------------------
(* Properties of the shape filter (SpecShape).                             *)

ShapeReturned == pc = "returned" /\ call.fn = "looks_like_address"

\* The forbidden characters as spec.md 4.3 lists them.
ForbiddenChars ==
    {"u0060", ":", "%", "@", "*", "^", "[", "]", "{", "}", "_", "u00AB", "u00BB"}

\* Every rule of the shape filter other than the "must have letters" rule,
\* on the stripped and lowercased address, letters of any script counted.
OtherShapeRulesHold(a) ==
    /\ Cardinality({i \in 1..Len(a) : IsWord(a[i])}) >= 30
    /\ Cardinality({i \in 1..Len(a) : IsWord(a[i])}) <= 300
    /\ Cardinality({i \in 1..Len(a) : IsLetter(a[i])}) >= 20
    /\ Cardinality({a[i] : i \in 1..Len(a)}) >= 5
    /\ \E i \in 1..Len(a) : IsDigit(a[i])
    /\ Cardinality({i \in 1..Len(a) : a[i] = ","}) >= 2
    /\ \A i \in 1..Len(a) : a[i] \notin ForbiddenChars

\* C10: an address whose letters are all non-Latin (no character in a-z)
\* and that satisfies every other rule of the shape filter is accepted by
\* looks_like_address.
C10_NonLatinAccepted ==
    (ShapeReturned
        /\ LET a == Lower(Strip(call.address))
           IN  /\ \A i \in 1..Len(a) : a[i] \notin Range(AsciiLower)
               /\ OtherShapeRulesHold(a))
    =>  ret.val = TRUE

-----------------------------------------------------------------------------
(* Bounding-box geometry and the area score.                               *)

\* A dict field that may be absent, and dict.get(key, default).
Absent     == [has |-> FALSE]
Present(x) == [has |-> TRUE, v |-> x]
Get(field, default) == IF field.has THEN field.v ELSE default

\* An item of a bounding box: a string float() parses, or one it does not.
Num(x) == [num |-> TRUE, v |-> x]
NotNum == [num |-> FALSE, v |-> 0]
BBox(south, north, west, east) == <<Num(south), Num(north), Num(west), Num(east)>>

\* lat_m: metres per degree of latitude, and so coordinate units per degree.
UnitsPerDegree == 111000

\* 1000 * cos(d degrees) for d = 0..90, rounded.
CosTable == <<
    1000, 1000, 999, 999, 998, 996, 995, 993, 990, 988, 985, 982, 978,
    974, 970, 966, 961, 956, 951, 946, 940, 934, 927, 921, 914, 906,
    899, 891, 883, 875, 866, 857, 848, 839, 829, 819, 809, 799, 788,
    777, 766, 755, 743, 731, 719, 707, 695, 682, 669, 656, 643, 629,
    616, 602, 588, 574, 559, 545, 530, 515, 500, 485, 469, 454, 438,
    423, 407, 391, 375, 358, 342, 326, 309, 292, 276, 259, 242, 225,
    208, 191, 174, 156, 139, 122, 105, 87, 70, 52, 35, 17, 0>>

Abs(x) == IF x < 0 THEN -x ELSE x

\* 1000 * math.cos(math.radians(center_lat)) for center_lat = twice_center / 2
\* coordinate units, taken at the whole degree below it.
CosMilli(twice_center) ==
    LET d == (Abs(twice_center) \div (2 * UnitsPerDegree)) % 360
        e == IF d > 180 THEN 360 - d ELSE d
    IN  IF e <= 90 THEN CosTable[e + 1] ELSE -CosTable[180 - e + 1]

\* A variant without the longitude scaling by the cosine of the latitude.
compute_bounding_box_area_meters_flat(boundingbox) ==
    IF Len(boundingbox) # 4 \/ \E i \in DOMAIN boundingbox : ~boundingbox[i].num
    THEN [raises |-> TRUE, area |-> 0]
    ELSE [raises |-> FALSE,
          area |-> Abs(boundingbox[4].v - boundingbox[3].v) * 1000
                     * Abs(boundingbox[2].v - boundingbox[1].v)]

\* A variant that takes the height and the width without abs().
compute_bounding_box_area_meters_signed(boundingbox) ==
    IF Len(boundingbox) # 4 \/ \E i \in DOMAIN boundingbox : ~boundingbox[i].num
    THEN [raises |-> TRUE, area |-> 0]
    ELSE
    LET south == boundingbox[1].v
        north == boundingbox[2].v
        west == boundingbox[3].v
        east == boundingbox[4].v
        lon_m_milli == CosMilli(south + north)
        height_m == north - south
        width_m_milli == (east - west) * lon_m_milli
    IN  [raises |-> FALSE, area |-> width_m_milli * height_m]

\* The area in 1/1000 m2, or ValueError when the box does not hold exactly
\* four parseable numbers.
compute_bounding_box_area_meters(boundingbox) ==
    IF Len(boundingbox) # 4 \/ \E i \in DOMAIN boundingbox : ~boundingbox[i].num
    THEN [raises |-> TRUE, area |-> 0]
    ELSE
    LET south == boundingbox[1].v
        north == boundingbox[2].v
        west == boundingbox[3].v
        east == boundingbox[4].v
        lon_m_milli == CosMilli(south + north)
        height_m == Abs(north - south)
        width_m_milli == Abs(east - west) * lon_m_milli
    IN  [raises |-> FALSE, area |-> width_m_milli * height_m]

\* The boxes compute_bounding_box_area_meters is given when called on its
\* own: south and north lie a few metres off one of the base latitudes,
\* west and east are taken from the longitudes (coordinate units).
AreaBaseLatitudes == {0, 60 * UnitsPerDegree, -33 * UnitsPerDegree}
AreaLatitudeOffsets == {-1000, -5, 0, 7, 10}
AreaLongitudes == {-18, 0, 10, 400}

\* A variant whose tier boundaries are inclusive.
ScoreForArea_inclusive(area) ==
    IF area <= 100 * 1000 THEN 10
    ELSE IF area <= 1000 * 1000 THEN 9
    ELSE IF area <= 10000 * 1000 THEN 8
    ELSE IF area <= 100000 * 1000 THEN 7
    ELSE 3

\* check/address.py lines 466-476: the score, in tenths, of a total area in
\* 1/1000 m2.
ScoreForArea(area) ==
    IF area < 100 * 1000 THEN 10
    ELSE IF area < 1000 * 1000 THEN 9
    ELSE IF area < 10000 * 1000 THEN 8
    ELSE IF area < 100000 * 1000 THEN 7
    ELSE 3

\* check/address_score.py lines 118-128.
ScoreForArea_score(area) ==
    IF area < 100 * 1000 THEN 10
    ELSE IF area < 1000 * 1000 THEN 9
    ELSE IF area < 10000 * 1000 THEN 8
    ELSE IF area < 100000 * 1000 THEN 7
    ELSE 3

RECURSIVE SumSeq(_)
SumSeq(s) == IF s = <<>> THEN 0 ELSE Head(s) + SumSeq(Tail(s))

\* The results that carry a 'boundingbox' key.
WithBox(rs) == SelectSeq(rs, LAMBDA r : r.boundingbox.has)

\* check/address.py lines 459-464: the total over the given results, or an
\* exception when one of their boxes is malformed.
sum_bounding_box_areas(rs) ==
    LET boxed == WithBox(rs)
        each == [i \in DOMAIN boxed |->
                    compute_bounding_box_area_meters(boxed[i].boundingbox.v)]
    IN  [raises |-> \E i \in DOMAIN each : each[i].raises,
         total |-> SumSeq([i \in DOMAIN each |-> each[i].area])]

\* check/address_score.py: the list of the areas of the results that carry
\* a box, or an exception when one of the boxes is malformed.
compute_bounding_box_areas_meters(rs) ==
    LET boxed == WithBox(rs)
        each == [i \in DOMAIN boxed |->
                    compute_bounding_box_area_meters(boxed[i].boundingbox.v)]
    IN  [raises |-> \E i \in DOMAIN each : each[i].raises,
         areas |-> [i \in DOMAIN each |-> each[i].area]]

-----------------------------------------------------------------------------
(* The result filter of check_with_nominatim (lines 431-454).              *)

\* A variant that discards place rank 20 as well.
passes_filter_above_20(result, query) ==
    LET place_rank == Get(result.place_rank, 0)
        name == Get(result.name, <<>>)
        display_name == Get(result.display_name, <<>>)
        original_numbers == DigitGroups(Lower(query))
    IN  /\ ~(place_rank <= 20)
        /\ ~(name # <<>> /\ ~Contains(Lower(query), Lower(name)))
        /\ ~(/\ display_name # <<>>
             /\ original_numbers # {}
             /\ DigitGroups(Lower(display_name)) # original_numbers)

\* The result passes the place-rank, name and digit-group checks.
passes_filter(result, query) ==
    LET place_rank == Get(result.place_rank, 0)
        name == Get(result.name, <<>>)
        display_name == Get(result.display_name, <<>>)
        original_numbers == DigitGroups(Lower(query))
    IN  /\ ~(place_rank < 20)
        /\ ~(name # <<>> /\ ~Contains(Lower(query), Lower(name)))
        /\ ~(/\ display_name # <<>>
             /\ original_numbers # {}
             /\ DigitGroups(Lower(display_name)) # original_numbers)

filter_results(rs, query) ==
    SelectSeq(rs, LAMBDA result : passes_filter(result, query))

-----------------------------------------------------------------------------
(* Inputs of validate_nominatim_result and answers of the external search. *)

\* "116 New Cavendish Street, London W1T 5DU, United Kingdom"
Q_london_116 == <<"1","1","6"," ","N","e","w"," ","C","a","v","e","n","d","i",
    "s","h"," ","S","t","r","e","e","t",","," ","L","o","n","d","o","n"," ",
    "W","1","T"," ","5","D","U",","," ","U","n","i","t","e","d"," ","K","i",
    "n","g","d","o","m">>
\* "New Cavendish Street, London, United Kingdom"
Q_nodigits == <<"N","e","w"," ","C","a","v","e","n","d","i","s","h"," ","S",
    "t","r","e","e","t",","," ","L","o","n","d","o","n",","," ","U","n","i",
    "t","e","d"," ","K","i","n","g","d","o","m">>
\* "New Cavendish Street"
N_cavendish == <<"N","e","w"," ","C","a","v","e","n","d","i","s","h"," ","S",
    "t","r","e","e","t">>
\* "Oxford Street"
N_oxford == <<"O","x","f","o","r","d"," ","S","t","r","e","e","t">>

\* The 'address' value of a result: a map that may hold a country, or a
\* value that is no map (a string, null).
AddressMap(country) == [map |-> TRUE, country |-> country]
NotAMap == [map |-> FALSE, country |-> Absent]

\* Boxes of 25 m2 near the equator, of exactly 100 m2 and 110 m2 centred on
\* it (so that the cosine is exactly 1), and a box at
\* latitude 60 whose area is 90 m2 with the cosine scaling, 180 m2 without.
Box25      == BBox(0, 5, 0, 5)
Box100     == BBox(-5, 5, 0, 10)
Box110     == BBox(-5, 5, 0, 11)
Box90Lat60 == BBox(60 * UnitsPerDegree, 60 * UnitsPerDegree + 10, 0, 18)
\* Boxes of exactly 1000, 10000 and 100000 m2 centred on the equator; the
\* second with west and east exchanged.
Box1000    == BBox(-5, 5, 0, 100)
Box10000   == BBox(-50, 50, 100, 0)
Box100000  == BBox(-125, 125, 0, 400)
\* Malformed boxes: three items, and an item that is no number.
BoxShort   == <<Num(0), Num(5), Num(0)>>
BoxNotNum  == <<Num(0), Num(5), NotNum, Num(5)>>

InputBoxes ==
    {Absent, Present(<<>>), Present(Box25), Present(Box100), Present(Box110),
     Present(Box90Lat60), Present(BoxShort), Present(BoxNotNum)}
InputDisplayNames ==
    {Absent, Present(<<>>), Present(A_london), Present(A_yemen6),
     Present(A_crimea)}
InputAddressFields ==
    {Absent, Present(NotAMap), Present(AddressMap(Absent)),
     Present(AddressMap(Present(<<>>))),
     Present(AddressMap(Present(SeedUnitedKingdom))),
     Present(AddressMap(Present(SeedFrance)))}

NominatimResults ==
    {[boundingbox |-> b, display_name |-> d, address |-> a] :
        b \in InputBoxes, d \in InputDisplayNames, a \in InputAddressFields}

\* One result of a search response.
Result(place_rank, name, display_name, boundingbox) ==
    [place_rank |-> place_rank, name |-> name, display_name |-> display_name,
     boundingbox |-> boundingbox]

ResultPool ==
    {Result(Present(26), Present(N_cavendish), Present(A_london), Present(Box90Lat60)),
     Result(Present(20), Absent, Absent, Present(Box100)),
     Result(Present(19), Present(N_cavendish), Present(A_london), Present(Box1000)),
     Result(Absent, Absent, Present(A_london), Present(Box10000)),
     Result(Present(26), Present(N_oxford), Present(A_london), Present(Box100000)),
     Result(Present(26), Absent, Present(Q_london_116), Present(Box25)),
     Result(Present(26), Present(<<>>), Present(A_london), Present(BoxNotNum)),
     Result(Present(30), Absent, Present(<<>>), Absent)}

\* Most results a response is given.
MaxResults == 2

RECURSIVE SeqsUpTo(_, _)
SeqsUpTo(S, n) ==
    IF n = 0 THEN {<<>>}
    ELSE LET shorter == SeqsUpTo(S, n - 1)
         IN  shorter \cup {Append(s, x) : s \in shorter, x \in S}

\* What the request can end in: a timeout, a connection error, a body that
\* is no JSON, a JSON value that is no list of results, a list of results.
Failure(kind) == [kind |-> kind, results |-> <<>>]
Responses ==
    {Failure("timeout"), Failure("connection_error"), Failure("decode_error"),
     Failure("not_a_list")}
    \cup {[kind |-> "list", results |-> rs] : rs \in SeqsUpTo(ResultPool, MaxResults)}

Queries == {A_london, Q_nodigits}
Modules == {"address", "address_score"}

-----------------------------------------------------------------------------
(* validate_nominatim_result and check_with_nominatim, step by step.       *)

Init ==
    /\ geonames \in {GeonamesSmall, GeonamesBroken}
    /\ NotLoaded
    /\ UavIdle
    /\ pc = "idle"
    /\ call = [fn |-> "none"]
    /\ ret = NoRet
    /\ address = <<>>
    /\ response = [kind |-> "none", results |-> <<>>]
    /\ results = <<>>
    /\ filtered_results = <<>>
    /\ total_area = 0
    /\ requests = 0
    /\ passed = <<>>

\* return v: the innermost call returns, and validate_nominatim_result
\* returns what check_with_nominatim returned (lines 519-521).
Return(v) == ret' = v /\ pc' = "returned"

\* The fields validate_nominatim_result reads (lines 495-500).
field_boundingbox(r) == Get(r.boundingbox, <<>>)
field_display_name(r) == Get(r.display_name, <<>>)
field_address_is_map(r) == Get(r.address, AddressMap(Absent)).map
field_country(r) == Get(Get(r.address, AddressMap(Absent)).country, <<>>)

CallValidate ==
    /\ pc = "idle"
    /\ \E r \in NominatimResults :
         call' = [fn |-> "validate_nominatim_result", module |-> "address",
                  nominatim_result |-> r]
    /\ pc' = "v_fields"
    /\ UNCHANGED <<loader, uav, geonames, ret, address, response, results, filtered_results,
                   total_area, requests, passed>>

\* Lines 495-503.
ExtractFields ==
    /\ pc = "v_fields"
    /\ LET r == call.nominatim_result
       IN  IF ~field_address_is_map(r)
           THEN Return(Raised("AttributeError")) /\ UNCHANGED passed
           ELSE IF \/ field_boundingbox(r) = <<>>
                   \/ field_display_name(r) = <<>>
                   \/ field_country(r) = <<>>
           THEN Return(RetBool(FALSE)) /\ UNCHANGED passed
           ELSE /\ pc' = "v_area"
                /\ passed' = Append(passed, "fields")
                /\ UNCHANGED ret
    /\ UNCHANGED <<loader, uav, geonames, call, address, response, results,
                   filtered_results, total_area, requests>>

\* Lines 505-508.
CheckArea ==
    /\ pc = "v_area"
    /\ LET area == compute_bounding_box_area_meters(
                       field_boundingbox(call.nominatim_result))
       IN  IF area.raises
           THEN Return(Raised("ValueError")) /\ UNCHANGED passed
           ELSE IF area.area > 100 * 1000
           THEN Return(RetBool(FALSE)) /\ UNCHANGED passed
           ELSE /\ pc' = "v_shape"
                /\ passed' = Append(passed, "area")
                /\ UNCHANGED ret
    /\ UNCHANGED <<loader, uav, geonames, call, address, response, results,
                   filtered_results, total_area, requests>>

\* Lines 510-512.
CheckShape ==
    /\ pc = "v_shape"
    /\ IF ~looks_like_address(field_display_name(call.nominatim_result))
       THEN Return(RetBool(FALSE)) /\ UNCHANGED passed
       ELSE /\ pc' = "v_region"
            /\ passed' = Append(passed, "shape")
            /\ UNCHANGED ret
    /\ UNCHANGED <<loader, uav, geonames, call, address, response, results,
                   filtered_results, total_area, requests>>

\* A variant that goes on to the search whatever the region check says.
CheckRegion_ignored ==
    /\ pc = "v_region"
    /\ pc' = "c_request"
    /\ passed' = Append(passed, "region")
    /\ address' = field_display_name(call.nominatim_result)
    /\ UNCHANGED <<loader, uav, geonames, call, ret, response, results, filtered_results,
                   total_area, requests>>

\* Lines 514-519: the region check, then the call of check_with_nominatim
\* with the display name.
CheckRegion ==
    /\ pc = "v_region"
    /\ LET r == call.nominatim_result
       IN  IF ~validate_address_region(field_display_name(r), field_country(r))
           THEN Return(RetBool(FALSE)) /\ UNCHANGED <<passed, address>>
           ELSE /\ pc' = "c_request"
                /\ passed' = Append(passed, "region")
                /\ address' = field_display_name(r)
                /\ UNCHANGED ret
    /\ UNCHANGED <<loader, uav, geonames, call, response, results, filtered_results,
                   total_area, requests>>

\* check_with_nominatim called on its own, in either module.
CallCheck ==
    /\ pc = "idle"
    /\ \E q \in Queries, mod \in Modules :
         /\ call' = [fn |-> "check_with_nominatim", module |-> mod, address |-> q]
         /\ address' = q
    /\ pc' = "c_request"
    /\ UNCHANGED <<loader, uav, geonames, ret, response, results, filtered_results,
                   total_area, requests, passed>>

\* Line 425: requests.get(...), and what the search answers.
SendRequest ==
    /\ pc = "c_request"
    /\ requests' = requests + 1
    /\ response' \in Responses
    /\ pc' = "c_response"
    /\ passed' = Append(passed, "request")
    /\ UNCHANGED <<loader, uav, geonames, call, ret, address, results, filtered_results,
                   total_area>>

\* A variant whose handler lets the exception through.
on_exception_reraised(e) == Raised(e)

\* except Exception as e: return 0.0 (address.py lines 480-481;
\* address_score.py lines 143-159, every clause).
on_exception(e) == RetFloat(0)

\* Lines 425-429: the request raises, response.json() raises, the decoded
\* value is no list of results (len() or result.get raises), or the list is
\* there.
ReceiveResponse ==
    /\ pc = "c_response"
    /\ IF response.kind = "timeout"
       THEN Return(on_exception("Timeout")) /\ UNCHANGED <<results, passed>>
       ELSE IF response.kind = "connection_error"
       THEN Return(on_exception("ConnectionError")) /\ UNCHANGED <<results, passed>>
       ELSE IF response.kind = "decode_error"
       THEN Return(on_exception("ValueError")) /\ UNCHANGED <<results, passed>>
       ELSE IF response.kind = "not_a_list"
       THEN Return(on_exception("TypeError")) /\ UNCHANGED <<results, passed>>
       ELSE IF Len(response.results) = 0
       THEN Return(RetFloat(0)) /\ results' = response.results /\ UNCHANGED passed
       ELSE /\ results' = response.results
            /\ pc' = "c_filter"
            /\ passed' = Append(passed, "response")
            /\ UNCHANGED ret
    /\ UNCHANGED <<loader, uav, geonames, call, address, response, filtered_results,
                   total_area, requests>>

\* Lines 431-457.
FilterResults ==
    /\ pc = "c_filter"
    /\ filtered_results' = filter_results(results, address)
    /\ IF Len(filtered_results') = 0
       THEN Return(RetFloat(0)) /\ UNCHANGED passed
       ELSE /\ pc' = "c_area"
            /\ passed' = Append(passed, "filter")
            /\ UNCHANGED ret
    /\ UNCHANGED <<loader, uav, geonames, call, address, response, results, total_area,
                   requests>>

\* A variant that sums the areas of the surviving results only.
SumAreas_survivors ==
    /\ pc = "c_area"
    /\ LET sum == sum_bounding_box_areas(filtered_results)
       IN  IF sum.raises
           THEN Return(on_exception("ValueError")) /\ UNCHANGED <<total_area, passed>>
           ELSE /\ total_area' = sum.total
                /\ pc' = "c_score"
                /\ passed' = Append(passed, "area_sum")
                /\ UNCHANGED ret
    /\ UNCHANGED <<loader, uav, geonames, call, address, response, results,
                   filtered_results, requests>>

\* address.py lines 459-464; address_score.py lines 106-116.
SumAreas ==
    /\ pc = "c_area"
    /\ IF call.module = "address"
       THEN LET sum == sum_bounding_box_areas(results)
            IN  IF sum.raises
                THEN Return(on_exception("ValueError"))
                     /\ UNCHANGED <<total_area, passed>>
                ELSE /\ total_area' = sum.total
                     /\ pc' = "c_score"
                     /\ passed' = Append(passed, "area_sum")
                     /\ UNCHANGED ret
       ELSE LET areas_data == compute_bounding_box_areas_meters(results)
            IN  IF areas_data.raises
                THEN Return(on_exception("ValueError"))
                     /\ UNCHANGED <<total_area, passed>>
                ELSE IF Len(areas_data.areas) = 0
                THEN Return(RetFloat(0)) /\ UNCHANGED <<total_area, passed>>
                ELSE /\ total_area' = SumSeq(areas_data.areas)
                     /\ pc' = "c_score"
                     /\ passed' = Append(passed, "area_sum")
                     /\ UNCHANGED ret
    /\ UNCHANGED <<loader, uav, geonames, call, address, response, results,
                   filtered_results, requests>>

\* address.py lines 466-478; address_score.py lines 118-142.
Score ==
    /\ pc = "c_score"
    /\ Return(RetFloat(IF call.module = "address"
                       THEN ScoreForArea(total_area)
                       ELSE ScoreForArea_score(total_area)))
    /\ passed' = Append(passed, "score")
    /\ UNCHANGED <<loader, uav, geonames, call, address, response, results,
                   filtered_results, total_area, requests>>

Next ==
    \/ CallValidate
    \/ ExtractFields
    \/ CheckArea
    \/ CheckShape
    \/ CheckRegion
    \/ CallCheck
    \/ SendRequest
    \/ ReceiveResponse
    \/ FilterResults
    \/ SumAreas
    \/ Score
    \/ NextCall

Spec == Init /\ [][Next]_vars

-----------------------------------------------------------------------------
(* The area function called on its own: compute_bounding_box_area_meters   *)
(* over boxes of every order of their corners.                             *)

RetArea(a) == [kind |-> "area", val |-> a]

InitArea ==
    /\ geonames = GeonamesSmall
    /\ NotLoaded
    /\ UavIdle
    /\ pc = "idle"
    /\ call = [fn |-> "none"]
    /\ ret = NoRet
    /\ address = <<>>
    /\ response = [kind |-> "none", results |-> <<>>]
    /\ results = <<>>
    /\ filtered_results = <<>>
    /\ total_area = 0
    /\ requests = 0
    /\ passed = <<>>

CallArea ==
    /\ pc = "idle"
    /\ \E base \in AreaBaseLatitudes, south \in AreaLatitudeOffsets,
          north \in AreaLatitudeOffsets,
          west \in AreaLongitudes, east \in AreaLongitudes :
         LET boundingbox == BBox(base + south, base + north, west, east)
         IN  /\ call' = [fn |-> "compute_bounding_box_area_meters",
                         boundingbox |-> boundingbox]
             /\ ret' = RetArea(compute_bounding_box_area_meters(boundingbox).area)
    /\ pc' = "returned"
    /\ UNCHANGED <<loader, uav, geonames, address, response, results, filtered_results,
                   total_area, requests, passed>>

NextArea == CallArea \/ NextCall

SpecArea == InitArea /\ [][NextArea]_vars

-----------------------------------------------------------------------------
(* Properties of validate_nominatim_result and check_with_nominatim (Spec). *)

ValidateReturned == pc = "returned" /\ call.fn = "validate_nominatim_result"
CheckReturned == pc = "returned" /\ call.fn = "check_with_nominatim"

\* The score tiers of spec.md 3 (area bound in m2, score in tenths), for an
\* area in 1/1000 m2.
TierScore(area) ==
    IF area < 100 * 1000 THEN 10
    ELSE IF 100 * 1000 <= area /\ area < 1000 * 1000 THEN 9
    ELSE IF 1000 * 1000 <= area /\ area < 10000 * 1000 THEN 8
    ELSE IF 10000 * 1000 <= area /\ area < 100000 * 1000 THEN 7
    ELSE 3

\* The box does not hold exactly four parseable decimals.
Malformed(box) == Len(box) # 4 \/ \E i \in DOMAIN box : ~box[i].num

\* Some result of the response carries a malformed box.
HasMalformedBox(rs) ==
    \E i \in DOMAIN rs : rs[i].boundingbox.has /\ Malformed(rs[i].boundingbox.v)

\* The sum of the areas of the boxes of all the given results.
RECURSIVE AreaOfAll(_)
AreaOfAll(rs) ==
    IF rs = <<>> THEN 0
    ELSE (IF Head(rs).boundingbox.has
          THEN compute_bounding_box_area_meters(Head(rs).boundingbox.v).area
          ELSE 0) + AreaOfAll(Tail(rs))

\* What check_with_nominatim of check/address.py is to return for a query
\* and an answer of the search: 0.0 for a failure, for no result and for
\* no survivor, else the tier of the area of all results.
CheckValue(query, resp) ==
    IF resp.kind # "list" THEN 0
    ELSE IF \A i \in DOMAIN resp.results : ~passes_filter(resp.results[i], query)
    THEN 0
    ELSE IF HasMalformedBox(resp.results) THEN 0
    ELSE TierScore(AreaOfAll(resp.results))

\* C1: validate_nominatim_result never raises: for every input result
\* object it returns False or a score in [0.0, 1.0].
C1_NeverRaises ==
    ValidateReturned
    =>  \/ ret.kind = "bool" /\ ret.val = FALSE
        \/ ret.kind = "float" /\ 0 <= ret.val /\ ret.val <= 10

\* The input fields a rejection is decided on.
MissingField(r) ==
    \/ field_boundingbox(r) = <<>>
    \/ field_display_name(r) = <<>>
    \/ field_country(r) = <<>>
AreaOver100(r) ==
    /\ ~Malformed(field_boundingbox(r))
    /\ compute_bounding_box_area_meters(field_boundingbox(r)).area > 100 * 1000
Rejected(r) ==
    \/ MissingField(r)
    \/ AreaOver100(r)
    \/ ~looks_like_address(field_display_name(r))
    \/ ~validate_address_region(field_display_name(r), field_country(r))

\* C2: validate_nominatim_result returns False if the bounding box, the
\* display name or the country is missing or empty, or the area is over
\* 100 m2, or looks_like_address or validate_address_region is false; in
\* every other case it returns the value of
\* check_with_nominatim(display_name).
C2_VerdictRule ==
    ValidateReturned
    =>  LET r == call.nominatim_result
        IN  IF Rejected(r)
            THEN ret.kind = "bool" /\ ret.val = FALSE
            ELSE /\ ret.kind = "float"
                 /\ ret.val = CheckValue(field_display_name(r), response)

\* The rule of C2 on the inputs whose 'address' is a map and whose box, when
\* there is one, holds four parseable decimals.
C2_VerdictRuleWellFormed ==
    (ValidateReturned
        /\ field_address_is_map(call.nominatim_result)
        /\ (MissingField(call.nominatim_result)
              \/ ~Malformed(field_boundingbox(call.nominatim_result))))
    =>  LET r == call.nominatim_result
        IN  IF Rejected(r)
            THEN ret.kind = "bool" /\ ret.val = FALSE
            ELSE /\ ret.kind = "float"
                 /\ ret.val = CheckValue(field_display_name(r), response)

\* The search failed, or answered with a result whose box is malformed.
SearchFailed(resp) ==
    \/ resp.kind \in {"timeout", "connection_error", "decode_error", "not_a_list"}
    \/ resp.kind = "list" /\ HasMalformedBox(resp.results)

C4_OneRequestAfterChecks ==
    call.fn = "validate_nominatim_result"
    =>  /\ requests <= 1
        /\ requests = 1 =>
             LET r == call.nominatim_result
             IN  /\ SubSeq(passed, 1, 5)
                       = <<"fields", "area", "shape", "region", "request">>
                 /\ ~Rejected(r)
        /\ (pc = "returned" /\ ret.kind = "bool") => requests = 0
        /\ pc \in {"v_fields", "v_area", "v_shape", "v_region", "c_request"}
             => requests = 0

\* A validation that passed the four checks and returned the score of its
\* one request.
C4_Witness ==
    /\ ValidateReturned
    /\ requests = 1
    /\ ret.kind = "float"
    /\ ret.val = 9

\* C5: for a decoded response, check_with_nominatim of check/address.py
\* returns 0.0 when there is no result or no result survives the filter;
\* when a result survives (and every box is well-formed) it returns the
\* tier score of the summed area of all results, discarded ones included.
C5_AreaOfAllResults ==
    (pc = "returned" /\ requests = 1 /\ call.module = "address"
        /\ response.kind = "list" /\ ~HasMalformedBox(response.results))
    =>  LET rs == response.results
            survivors == {i \in DOMAIN rs : passes_filter(rs[i], address)}
        IN  /\ ret.kind = "float"
            /\ ret.val = IF rs = <<>> \/ survivors = {} THEN 0
                         ELSE TierScore(AreaOfAll(rs))

\* A discarded result's box moved the score to a lower tier than the
\* survivors' boxes alone would give.
C5_Witness ==
    /\ pc = "returned" /\ requests = 1 /\ call.module = "address"
    /\ response.kind = "list" /\ ~HasMalformedBox(response.results)
    /\ filtered_results # <<>>
    /\ Len(filtered_results) < Len(response.results)
    /\ TierScore(AreaOfAll(filtered_results)) = 10
    /\ ret.kind = "float" /\ ret.val = 7

\* Areas at and next to the tier boundaries, in 1/1000 m2.
BoundaryAreas ==
    {b * 1000 + d : b \in {0, 100, 1000, 10000, 100000}, d \in {-1, 0, 1}}

\* C6: the area-to-score mapping, in both modules, uses strictly-less-than
\* boundaries (area < 100 gives 1.0, < 1000 gives 0.9, < 10000 gives 0.8,
\* < 100000 gives 0.7, else 0.3), so a total of exactly 100, 1000, 10000 or
\* 100000 m2 falls in the lower tier, and the score never increases when
\* the area grows.
C6_TierBoundaries ==
    (pc = "returned" /\ passed # <<>> /\ passed[Len(passed)] = "score")
    =>  /\ ret.kind = "float"
        /\ ret.val = TierScore(total_area)
        /\ total_area = 100 * 1000 => ret.val = 9
        /\ total_area = 1000 * 1000 => ret.val = 8
        /\ total_area = 10000 * 1000 => ret.val = 7
        /\ total_area = 100000 * 1000 => ret.val = 3
        /\ \A b \in BoundaryAreas :
             /\ b <= total_area =>
                  (ScoreForArea(b) >= ret.val /\ ScoreForArea_score(b) >= ret.val)
             /\ b >= total_area =>
                  (ScoreForArea(b) <= ret.val /\ ScoreForArea_score(b) <= ret.val)

\* A total of exactly 100 m2 scored 0.9 by check/address.py.
C6_Witness ==
    /\ pc = "returned" /\ passed # <<>> /\ passed[Len(passed)] = "score"
    /\ call.module = "address"
    /\ total_area = 100 * 1000
    /\ ret.kind = "float" /\ ret.val = 9

-----------------------------------------------------------------------------
(* Further properties of the shape filter (SpecShape).                     *)

\* C11: looks_like_address, in either file, returns false for every string
\* that holds at least one character of the forbidden set (backtick, colon,
\* percent, at-sign, asterisk, caret, the four brackets, underscore and the
\* two guillemets).
C11_ForbiddenCharRejected ==
    (ShapeReturned
        /\ \E i \in DOMAIN call.address : call.address[i] \in ForbiddenChars)
    =>  ret.val = FALSE

\* An address rejected for its forbidden character alone: without that
\* character the same filter accepts it.
C11_Witness ==
    /\ ShapeReturned
    /\ call.address # <<>>
    /\ call.address[Len(call.address)] \in ForbiddenChars
    /\ LET rest == SubSeq(call.address, 1, Len(call.address) - 1)
       IN  IF call.module = "address" THEN looks_like_address(rest)
           ELSE looks_like_address_check(rest)
    /\ ret.val = FALSE

\* C12: looks_like_address, in either file, returns false for every address
\* that holds fewer than 2 commas.
C12_FewCommasRejected ==
    (ShapeReturned
        /\ Cardinality({i \in DOMAIN call.address : call.address[i] = ","}) < 2)
    =>  ret.val = FALSE

\* An address with one comma that breaks no other rule of the filter.
C12_Witness ==
    /\ ShapeReturned
    /\ Cardinality({i \in DOMAIN call.address : call.address[i] = ","}) = 1
    /\ LET a == Lower(Strip(call.address))
       IN  /\ Cardinality({i \in 1..Len(a) : IsWord(a[i])}) \in 30..300
           /\ Cardinality({i \in 1..Len(a) : IsLetter(a[i])}) >= 20
           /\ \E i \in 1..Len(a) : a[i] \in Range(AsciiLower)
           /\ Cardinality({a[i] : i \in 1..Len(a)}) >= 5
           /\ \E i \in 1..Len(a) : IsDigit(a[i])
           /\ \A i \in 1..Len(a) : a[i] \notin ForbiddenChars \cup {"$"}
    /\ ret.val = FALSE

-----------------------------------------------------------------------------
(* Properties of the extractor (SpecExtract).                              *)

ExtractReturned == pc = "returned" /\ call.fn = "extract_city_country"

\* The comma-separated segments of the lowercased address, each stripped.
Segments(a) ==
    LET raw == Split(Lower(a), ",")
    IN  [i \in DOMAIN raw |-> Strip(raw[i])]

\* The last two segments joined by ", ".
JoinedLastTwo(segs) ==
    segs[Len(segs) - 1] \o <<",", " ">> \o segs[Len(segs)]

\* The two-segment candidate is accepted: the flag is set and the joined
\* string is an alias key.
TwoSegmentAccepted(segs, flag) ==
    /\ flag
    /\ Len(segs) >= 2
    /\ \E i \in DOMAIN COUNTRY_MAPPING :
           COUNTRY_MAPPING[i][1] = JoinedLastTwo(segs)

\* The words of a segment and every two neighbouring words joined by one
\* space: the city candidates of the segment.
SegmentCandidates(segment) ==
    LET words == SplitWords(segment)
    IN  {words[k] : k \in DOMAIN words}
          \cup {words[k - 1] \o <<" ">> \o words[k] : k \in 2..Len(words)}

\* The city candidates of the first n segments.
CandidatesOfFirst(segs, n) ==
    UNION {SegmentCandidates(segs[i]) : i \in 1..n}

-----------------------------------------------------------------------------
(* Properties of the country normalisation (SpecNormalize).                *)

NormalizeReturned == pc = "returned" /\ call.fn = "COUNTRY_MAPPING.get"

\* The alias keys of the table of a file.
AliasKeys(module) ==
    IF module = "address"
    THEN {COUNTRY_MAPPING[i][1] : i \in DOMAIN COUNTRY_MAPPING}
    ELSE {COUNTRY_MAPPING_check[i][1] : i \in DOMAIN COUNTRY_MAPPING_check}

\* C14: country normalisation through COUNTRY_MAPPING is idempotent in both
\* copies of the table: no alias target is itself an alias key, so
\* normalising a normalised name changes nothing.
C14_NormalizeIdempotent ==
    NormalizeReturned
    =>  /\ ret.val \notin AliasKeys(call.module)
        /\ (IF call.module = "address" THEN MappingGet(ret.val)
            ELSE MappingGet_check(ret.val)) = ret.val

\* An alias key was normalised to its target by the table of
\* check/address_check.py.
C14_Witness ==
    /\ NormalizeReturned
    /\ call.module = "address_check"
    /\ call.key \in AliasKeys("address_check")
    /\ ret.val # call.key

-----------------------------------------------------------------------------
(* Properties of the area function (SpecArea).                             *)

AreaReturned == pc = "returned" /\ call.fn = "compute_bounding_box_area_meters"

\* C15: the bounding-box area is unchanged when south and north are swapped
\* and when west and east are swapped, for every bounding box.
C15_AreaSwapSymmetric ==
    AreaReturned
    =>  LET b == call.boundingbox
        IN  /\ compute_bounding_box_area_meters(<<b[2], b[1], b[3], b[4]>>).area
                 = ret.val
            /\ compute_bounding_box_area_meters(<<b[1], b[2], b[4], b[3]>>).area
                 = ret.val
            /\ compute_bounding_box_area_meters(<<b[2], b[1], b[4], b[3]>>).area
                 = ret.val

\* A box away from the equator given with south above north and west right
\* of east, of an area that is not zero.
C15_Witness ==
    /\ AreaReturned
    /\ call.boundingbox[1].v > call.boundingbox[2].v
    /\ call.boundingbox[3].v > call.boundingbox[4].v
    /\ call.boundingbox[2].v >= 60 * UnitsPerDegree
    /\ ret.val > 0

-----------------------------------------------------------------------------
(* Properties of the lazy load of the dataset (SpecLoad).                  *)

\* C16: the dataset is loaded at most once per process even when several
\* callers run get_geonames_data at the same time before the first load has
\* finished: in every interleaving the constructor runs exactly once.
C16_LoadedOnce ==
    /\ loads <= 1
    /\ (geonames.ok /\ \A t \in Threads : thread[t].line = "returned")
       => loads = 1

\* Every caller that returns from get_geonames_data holds the cities and
\* the countries of the dataset.
LoadReturnsData ==
    \A t \in Threads :
        thread[t].line = "returned" => thread[t].ret = <<"cities", "countries">>

-----------------------------------------------------------------------------
(* The region validator when the dataset cannot be loaded (SpecRegion).    *)

\* The call has to ask the gazetteer: the seed is no special region name,
\* the candidate has a country and a city candidate without a digit.
AsksGazetteer(generated_address, seed_address) ==
    LET segs == Segments(generated_address)
        flag == \E i \in DOMAIN seed_address : seed_address[i] = ","
        two == TwoSegmentAccepted(segs, flag)
        country == IF two THEN MappingGet(JoinedLastTwo(segs))
                   ELSE MappingGet(segs[Len(segs)])
    IN  /\ Lower(seed_address) \notin WesternSaharaNames \cup DisputedNames
        /\ generated_address # <<>>
        /\ seed_address # <<>>
        /\ Len(segs) >= 2
        /\ country # <<>>
        /\ \E c \in CandidatesOfFirst(segs, Len(segs) - (IF two THEN 2 ELSE 1)) :
               ~HasDigit(c)

\* C17: a failure to load the gazetteer is fatal: it reaches the caller as
\* an exception and is not turned into an ordinary negative answer of
\* city_in_country, of the extractor or of the region validator.
C17_LoadFailurePropagates ==
    (RegionReturned /\ ~geonames.ok
        /\ AsksGazetteer(call.generated_address, call.seed_address))
    =>  ret.kind = "raise"

-----------------------------------------------------------------------------
(* Properties of the result filter of check_with_nominatim (Spec).         *)

\* The digit groups of a result's display name (none when it has no
\* display name).
DisplayNumbers(result) == DigitGroups(Lower(Get(result.display_name, <<>>)))

\* C18: in check_with_nominatim every result whose set of display-name
\* digit groups is not exactly the set of digit groups of the query is
\* discarded by the filter, for every query, a query without any digit
\* included: every result that is kept has the digit groups of the query.
C18_DigitMismatchDiscarded ==
    \A i \in DOMAIN filtered_results :
        DisplayNumbers(filtered_results[i]) = DigitGroups(Lower(address))


\* The filter has gone over the results of the response.
FilterRan == results # <<>> /\ pc # "c_filter"

\* The name rule and the digit-group rule of the filter keep the result.
NameRuleKeeps(result, query) ==
    \/ Get(result.name, <<>>) = <<>>
    \/ Contains(Lower(query), Lower(Get(result.name, <<>>)))
DigitRuleKeeps(result, query) ==
    \/ Get(result.display_name, <<>>) = <<>>
    \/ DigitGroups(Lower(query)) = {}
    \/ DisplayNumbers(result) = DigitGroups(Lower(query))

\* C19: in check_with_nominatim every result whose place rank is below 20
\* is discarded by the filter, a result without a place-rank field counts
\* as rank 0 and is discarded too, and a result of place rank exactly 20 is
\* not discarded by this rule.
C19_PlaceRankFloor ==
    FilterRan
    =>  /\ \A i \in DOMAIN results :
             (results[i].place_rank.has => results[i].place_rank.v < 20)
             => \A j \in DOMAIN filtered_results :
                    filtered_results[j] # results[i]
        /\ \A i \in DOMAIN results :
             (/\ results[i].place_rank = Present(20)
              /\ NameRuleKeeps(results[i], address)
              /\ DigitRuleKeeps(results[i], address))
             => \E j \in DOMAIN filtered_results :
                    filtered_results[j] = results[i]

\* A response with a result of place rank 20 that was kept and a result
\* without place rank that was discarded.
C19_Witness ==
    /\ FilterRan
    /\ \E i \in DOMAIN results :
         /\ results[i].place_rank = Present(20)
         /\ \E j \in DOMAIN filtered_results : filtered_results[j] = results[i]
    /\ \E i \in DOMAIN results :
         /\ ~results[i].place_rank.has
         /\ \A j \in DOMAIN filtered_results : filtered_results[j] # results[i]

-----------------------------------------------------------------------------
(* The two-segment country of the extractor (SpecExtract).                 *)

\* The city is empty or a candidate of one of the first n segments.
CityFromFirst(city, segs, n) ==
    city = <<>> \/ city \in CandidatesOfFirst(segs, n)

-----------------------------------------------------------------------------
(* The order of the city search of the extractor (SpecExtract).            *)

\* The candidates of one segment in the order of the search: at each word,
\* left to right, the word and then the previous word joined to it.
RECURSIVE SegmentOrder(_, _)
SegmentOrder(words, k) ==
    IF k > Len(words) THEN <<>>
    ELSE <<words[k]>>
           \o (IF k > 1 THEN <<words[k - 1] \o <<" ">> \o words[k]>> ELSE <<>>)
           \o SegmentOrder(words, k + 1)

\* The candidates of the segments n, n - 1, ..., 1 in the order of the
\* search.
RECURSIVE ScanOrder(_, _)
ScanOrder(segs, n) ==
    IF n < 1 THEN <<>>
    ELSE SegmentOrder(SplitWords(segs[n]), 1) \o ScanOrder(segs, n - 1)

\* The candidates left of the country of a returned call, in search order.
ReturnedScanOrder ==
    LET segs == Segments(call.address)
        two == TwoSegmentAccepted(segs, call.two_parts)
    IN  ScanOrder(segs, Len(segs) - (IF two THEN 2 ELSE 1))

\* The candidate is tested and matches the gazetteer for the country.
Matches(c, country) == ~HasDigit(c) /\ city_in_country(c, country)

-----------------------------------------------------------------------------
(* City lookup.                                                            *)

CityReturned == pc = "returned" /\ call.fn = "city_in_country"

\* The codes of the countries of the dataset whose name is the given one,
\* letter case and surrounding whitespace aside.
CodesNamed(country) ==
    {geonames.countries[i].code : i \in
        {j \in DOMAIN geonames.countries :
            Strip(Lower(geonames.countries[j].name)) = Strip(Lower(country))}}

\* The names of the cities the dataset registers under one of the codes.
CityNamesOf(codes) ==
    {geonames.cities[i].name : i \in
        {j \in DOMAIN geonames.cities :
            geonames.cities[j].countrycode \in codes}}

\* C22: city_in_country returns false when an argument is empty or no
\* country has the given name; for a candidate of one word it returns true
\* exactly when a city of that country has that very name, letter case
\* aside; and whenever it returns true, a city registered under the code of
\* that country is what matched, by name, by beginning with the first word
\* or by holding the second word of a candidate of two or more words.
C22_CityInCountry ==
    (CityReturned /\ geonames.ok) =>
        LET city == call.city_name
            country == call.country_name
            codes == CodesNamed(country)
            names == CityNamesOf(codes)
            words == SplitWords(Lower(city))
            same == \E n \in names : Strip(Lower(n)) = Strip(Lower(city))
        IN  /\ ret.kind = "bool"
            /\ (city = <<>> \/ country = <<>> \/ codes = {}) => ret.val = FALSE
            /\ (city # <<>> /\ country # <<>> /\ Len(words) <= 1)
                   => (ret.val = same)
            /\ ret.val = TRUE =>
                   \/ same
                   \/ /\ Len(words) >= 2
                      /\ \E n \in names :
                           \/ StartsWith(Lower(n), words[1])
                           \/ Contains(Lower(n), words[2])

\* A single word that a city of the named country begins with, and is not
\* the name of, was looked up and refused; and a candidate that only a city
\* of another country matches was refused.
C22_Witness ==
    /\ CityReturned /\ geonames.ok
    /\ call.country_name # <<>>
    /\ Len(SplitWords(Lower(call.city_name))) = 1
    /\ \E n \in CityNamesOf(CodesNamed(call.country_name)) :
          /\ StartsWith(Lower(n), SplitWords(Lower(call.city_name))[1])
          /\ Strip(Lower(n)) # Strip(Lower(call.city_name))
    /\ ret.val = FALSE

-----------------------------------------------------------------------------
(* The two shape filters.                                                  *)

\* What the filter of the module that was not called answers for the
\* string the other one was called with.
OtherShapeAnswer ==
    IF call.module = "address" THEN looks_like_address_check(call.address)
    ELSE looks_like_address(call.address)

\* C23: the filters of address.py and address_check.py answer alike for
\* every string without "$", and address_check.py refuses every string that
\* holds "$".
C23_FiltersDifferInDollar ==
    ShapeReturned =>
        /\ ("$" \notin Range(call.address)) => (ret.val = OtherShapeAnswer)
        /\ ("$" \in Range(call.address) /\ call.module = "address_check")
               => ret.val = FALSE
        /\ ("$" \in Range(call.address) /\ call.module = "address")
               => OtherShapeAnswer = FALSE

\* address_check.py refused a string with "$" that address.py accepts.
C23_Witness ==
    /\ ShapeReturned
    /\ call.module = "address_check"
    /\ "$" \in Range(call.address)
    /\ ret.val = FALSE
    /\ OtherShapeAnswer = TRUE

-----------------------------------------------------------------------------
(* The globals of the lazy load (SpecLoad).                                *)

\* C24: in every state, the middle of another caller's load included,
\* _geonames_cache being set implies that _cities_data and _countries_data
\* are set, and no caller gets None for the cities or the countries from
\* get_geonames_data.
C24_CacheImpliesData ==
    /\ _geonames_cache # "None"
           => (_cities_data # "None" /\ _countries_data # "None")
    /\ \A t \in Threads :
           thread[t].line = "returned"
               => (thread[t].ret[1] # "None" /\ thread[t].ret[2] # "None")

-----------------------------------------------------------------------------
(* The two check_with_nominatim implementations.                           *)

\* What check_with_nominatim of the given module returns for a query and an
\* answer of the search: the steps ReceiveResponse, FilterResults, SumAreas
\* and Score in one expression, score in tenths.
ScoreOfModule(mod, query, resp) ==
    IF resp.kind # "list" THEN 0
    ELSE IF Len(resp.results) = 0 THEN 0
    ELSE IF Len(filter_results(resp.results, query)) = 0 THEN 0
    ELSE IF mod = "address"
    THEN LET sum == sum_bounding_box_areas(resp.results)
         IN  IF sum.raises THEN 0 ELSE ScoreForArea(sum.total)
    ELSE LET areas_data == compute_bounding_box_areas_meters(resp.results)
         IN  IF areas_data.raises THEN 0
             ELSE IF Len(areas_data.areas) = 0 THEN 0
             ELSE ScoreForArea_score(SumSeq(areas_data.areas))

\* The module that was not called.
OtherModule == IF call.module = "address" THEN "address_score" ELSE "address"

\* The score follows the steps of the module that was called.
ScoreIsOfModule ==
    CheckReturned
    => ret = RetFloat(ScoreOfModule(call.module, call.address, response))

\* C25: check_with_nominatim of address.py and of address_score.py return
\* the same score for every query and every answer or failure of the
\* search, a response in which a result survives the filter and no result
\* carries a bounding box included.
C25_ModulesAgree ==
    CheckReturned
    => /\ ret.kind = "float"
       /\ ret.val = ScoreOfModule(OtherModule, call.address, response)

-----------------------------------------------------------------------------
(* uav/main.py: UAVPipeline, the loop over the countries and the stages    *)
(* of one country. The two sub-processes and the download are external:    *)
(* each gives one of the outcomes the code distinguishes.                  *)

\* The validator is not in a call.
ValidatorIdle ==
    /\ geonames = GeonamesSmall
    /\ pc = "idle"
    /\ call = [fn |-> "none"]
    /\ ret = NoRet
    /\ address = <<>>
    /\ response = [kind |-> "none", results |-> <<>>]
    /\ results = <<>>
    /\ filtered_results = <<>>
    /\ total_area = 0
    /\ requests = 0
    /\ passed = <<>>

\* str.upper() of a country code (ASCII letters).
UpperChar(c) ==
    IF \E i \in DOMAIN AsciiLower : AsciiLower[i] = c
    THEN AsciiUpper[CHOOSE i \in DOMAIN AsciiLower : AsciiLower[i] = c]
    ELSE c
Upper(s) == [i \in 1..Len(s) |-> UpperChar(s[i])]

\* geonames_countries.json as load_geonames_countries reads it.
geonames_countries ==
    <<[code |-> <<"Y","E">>, name |-> NameYemen],
      [code |-> <<"C","G">>, name |-> NameCongo]>>

\* urls.py: the codes GEOFABRIK_URLS has a download URL for.
GEOFABRIK_URLS == {<<"Y","E">>}

\* An entry of country_names.json that is no string (null).
NotAString == <<"None">>

\* country_names.json: a country with a code and a URL, one with a code and
\* no URL, one without a code, and an entry that is no string.
CountryNames == {NameYemen, NameCongo, NameUkraine, NotAString}
MaxCountries == 2
CountryLists ==
    UNION {[1..n -> CountryNames] : n \in 1..MaxCountries}

\* The codes a file of osm_data/ can be named after.
Codes == {Lower(geonames_countries[i].code) : i \in DOMAIN geonames_countries}

\* Most runs of the pipeline over the same osm_data/ directory.
MaxRuns == 2

\* Lines 35-43.
ZeroStats ==
    [total_countries |-> 0, found_codes |-> 0, downloaded |-> 0,
     exported |-> 0, processed |-> 0, skipped |-> 0, errors |-> 0]

\* Lines 73-81: the lowered code of the first entry whose lowered name is
\* the lowered country name, or None (here the empty string).
find_country_code(country_name) ==
    LET country_name_lower == Lower(country_name)
        hits == {i \in DOMAIN geonames_countries :
                    Lower(geonames_countries[i].name) = country_name_lower}
    IN  IF hits = {} THEN <<>>
        ELSE Lower(geonames_countries[
                       CHOOSE i \in hits : \A j \in hits : i <= j].code)

\* Lines 83-86: the file '<code>-latest.osm.pbf' exists, whatever it holds.
check_osm_file_exists(country_code) == osm_data[country_code] # "none"

\* A stage of process_country was invoked and gave the result.
Event(stage, result) == [stage |-> stage, result |-> result]

\* self.stats[field] += 1
Bump(field) == [stats EXCEPT ![field] = @ + 1]

\* process_country returns, or an exception leaves it: back to line 233.
Finish(event) ==
    [pipeline EXCEPT !.log = Append(@, event), !.line = "loop"]

\* The next stage of the same country.
Proceed(event, line) ==
    [pipeline EXCEPT !.log = Append(@, event), !.line = line]

\* A variant of the handler that does not count the country.
run_except_uncounted(s) == s

\* Lines 241-244: except Exception: self.stats['errors'] += 1; continue
run_except(s) == [s EXCEPT !.errors = @ + 1]

\* What a step of the pipeline leaves alone.
PipelineUnchanged ==
    UNCHANGED <<validator, loader, uav_collection, validated_collection,
                processor, cleaner>>

InitPipeline ==
    /\ ValidatorIdle
    /\ NotLoaded
    /\ stats = ZeroStats
    /\ osm_data \in [Codes -> {"none", "complete"}]
    /\ pipeline \in {[line |-> "idle", countries |-> cs, i |-> 0,
                      country_code |-> <<>>, log |-> <<>>, runs |-> 1] :
                        cs \in CountryLists}
    /\ uav_collection = {}
    /\ validated_collection = {}
    /\ processor = [line |-> "none"]
    /\ cleaner = [line |-> "none"]

\* Lines 221-230: run() starts.
RunStart ==
    /\ pipeline.line = "idle"
    /\ stats' = [stats EXCEPT !.total_countries = Len(pipeline.countries)]
    /\ pipeline' = [pipeline EXCEPT !.line = "loop"]
    /\ UNCHANGED osm_data
    /\ PipelineUnchanged

\* Line 233: the for loop takes the next country, or ends (line 247).
Loop ==
    /\ pipeline.line = "loop"
    /\ IF pipeline.i = Len(pipeline.countries)
       THEN pipeline' = [pipeline EXCEPT !.line = "done"]
       ELSE pipeline' = [pipeline EXCEPT !.i = @ + 1, !.line = "find",
                                         !.log = <<>>, !.country_code = <<>>]
    /\ UNCHANGED <<stats, osm_data>>
    /\ PipelineUnchanged

\* Lines 186-194: step 1. country_name.lower() of an entry that is no
\* string raises; the exception leaves process_country for lines 241-244.
FindCode ==
    /\ pipeline.line = "find"
    /\ LET country_name == pipeline.countries[pipeline.i]
       IN  IF country_name = NotAString
           THEN /\ stats' = run_except(stats)
                /\ pipeline' = Finish(Event("find_country_code", "raised"))
           ELSE LET country_code == find_country_code(country_name)
                IN  IF country_code = <<>>
                    THEN /\ stats' = Bump("skipped")
                         /\ pipeline' =
                              Finish(Event("find_country_code", "None"))
                    ELSE /\ stats' = Bump("found_codes")
                         /\ pipeline' =
                              [Proceed(Event("find_country_code", "code"),
                                       "check")
                                  EXCEPT !.country_code = country_code]
    /\ UNCHANGED osm_data
    /\ PipelineUnchanged

\* Lines 197-200: step 2, the file is there or has to be downloaded.
CheckFile ==
    /\ pipeline.line = "check"
    /\ IF check_osm_file_exists(pipeline.country_code)
       THEN pipeline' = Proceed(Event("check_osm_file_exists", "True"),
                                "export")
       ELSE pipeline' = Proceed(Event("check_osm_file_exists", "False"),
                                "download")
    /\ UNCHANGED <<stats, osm_data>>
    /\ PipelineUnchanged

\* Lines 90-108 and 124-128, 201-203: download_osm_file up to open(). No
\* URL, or the request fails before the file is opened: it returns False.
\* Else open(osm_file, 'wb') creates the file.
DownloadStart ==
    /\ pipeline.line = "download"
    /\ IF Upper(pipeline.country_code) \notin GEOFABRIK_URLS
       THEN /\ stats' = Bump("errors")
            /\ pipeline' = Finish(Event("download_osm_file", "False"))
            /\ UNCHANGED osm_data
       ELSE \/ /\ stats' = Bump("errors")
               /\ pipeline' = Finish(Event("download_osm_file", "False"))
               /\ UNCHANGED osm_data
            \/ /\ osm_data' =
                    [osm_data EXCEPT ![pipeline.country_code] = "partial"]
               /\ pipeline' = [pipeline EXCEPT !.line = "writing"]
               /\ UNCHANGED stats
    /\ PipelineUnchanged

\* Lines 109-128, 201-204: the chunks are written to the end and
\* download_osm_file returns True, or an Exception ends the writing, the
\* handler unlinks the file and returns False.
DownloadWrite ==
    /\ pipeline.line = "writing"
    /\ \/ /\ osm_data' =
               [osm_data EXCEPT ![pipeline.country_code] = "complete"]
          /\ stats' = Bump("downloaded")
          /\ pipeline' = Proceed(Event("download_osm_file", "True"), "export")
       \/ /\ osm_data' = [osm_data EXCEPT ![pipeline.country_code] = "none"]
          /\ stats' = Bump("errors")
          /\ pipeline' = Finish(Event("download_osm_file", "False"))
    /\ PipelineUnchanged

\* A variant that goes on to process_ways after a failed export.
ExportWays_continues ==
    /\ pipeline.line = "export"
    /\ \/ /\ stats' = Bump("exported")
          /\ pipeline' = Proceed(Event("export_ways", "True"), "process")
       \/ /\ stats' = Bump("errors")
          /\ pipeline' = Proceed(Event("export_ways", "False"), "process")
    /\ UNCHANGED osm_data
    /\ PipelineUnchanged

\* Lines 130-152, 207-210: step 3, the export sub-process ends with return
\* code 0 or not (an exception counts as not).
ExportWays ==
    /\ pipeline.line = "export"
    /\ \/ /\ stats' = Bump("exported")
          /\ pipeline' = Proceed(Event("export_ways", "True"), "process")
       \/ /\ stats' = Bump("errors")
          /\ pipeline' = Finish(Event("export_ways", "False"))
    /\ UNCHANGED osm_data
    /\ PipelineUnchanged

\* Lines 154-178, 213-219: step 4, the processing sub-process.
ProcessWays ==
    /\ pipeline.line = "process"
    /\ \/ /\ stats' = Bump("processed")
          /\ pipeline' = Finish(Event("process_ways", "True"))
       \/ /\ stats' = Bump("errors")
          /\ pipeline' = Finish(Event("process_ways", "False"))
    /\ UNCHANGED osm_data
    /\ PipelineUnchanged

\* Lines 238-240: KeyboardInterrupt while process_country runs. No handler
\* of download_osm_file catches it (line 124 names Exception), so a file
\* being written stays as it is; run() leaves the loop.
Interrupt ==
    /\ pipeline.line \in {"find", "check", "download", "writing", "export",
                          "process"}
    /\ pipeline' = [pipeline EXCEPT !.line = "interrupted"]
    /\ UNCHANGED <<stats, osm_data>>
    /\ PipelineUnchanged

\* main.py is started again over the same directory: lines 22-43.
Rerun ==
    /\ pipeline.line \in {"done", "interrupted"}
    /\ pipeline.runs < MaxRuns
    /\ stats' = ZeroStats
    /\ pipeline' = [pipeline EXCEPT !.line = "idle", !.i = 0, !.log = <<>>,
                                    !.country_code = <<>>, !.runs = @ + 1]
    /\ UNCHANGED osm_data
    /\ PipelineUnchanged

NextPipeline ==
    \/ RunStart
    \/ Loop
    \/ FindCode
    \/ CheckFile
    \/ DownloadStart
    \/ DownloadWrite
    \/ ExportWays
    \/ ProcessWays
    \/ Interrupt
    \/ Rerun

SpecPipeline == InitPipeline /\ [][NextPipeline]_vars

-----------------------------------------------------------------------------
(* Properties of the pipeline (SpecPipeline).                              *)

\* The place of a stage in the order of process_country.
StageRank(stage) ==
    CASE stage = "find_country_code" -> 1
      [] stage = "check_osm_file_exists" -> 2
      [] stage = "download_osm_file" -> 3
      [] stage = "export_ways" -> 4
      [] stage = "process_ways" -> 5

\* The stage did not succeed.
StageFailed(event) ==
    \/ event.stage = "find_country_code" /\ event.result # "code"
    \/ /\ event.stage \in {"download_osm_file", "export_ways", "process_ways"}
       /\ event.result # "True"

\* The log holds the stage with the result before position k.
Before(k, stage, result) ==
    \E j \in 1..(k - 1) :
        pipeline.log[j] = Event(stage, result)

\* C26: the stages of a country run in the fixed order and stop at the
\* first failure: export_ways is invoked only when the code was found and
\* the file existed or download_osm_file returned True, process_ways only
\* after export_ways returned True, and no stage after a failed one.
C26_StagesInOrder ==
    \A k \in DOMAIN pipeline.log :
        LET event == pipeline.log[k]
        IN  /\ \A j \in 1..(k - 1) :
                  /\ StageRank(pipeline.log[j].stage) < StageRank(event.stage)
                  /\ ~StageFailed(pipeline.log[j])
            /\ event.stage = "export_ways" =>
                  /\ Before(k, "find_country_code", "code")
                  /\ \/ Before(k, "check_osm_file_exists", "True")
                     \/ Before(k, "download_osm_file", "True")
            /\ event.stage = "process_ways" =>
                  Before(k, "export_ways", "True")

\* A country whose file was downloaded and exported, and whose processing
\* failed.
C26_Witness ==
    /\ pipeline.line = "loop"
    /\ Len(pipeline.log) = 5
    /\ pipeline.log[3] = Event("download_osm_file", "True")
    /\ pipeline.log[4] = Event("export_ways", "True")
    /\ pipeline.log[5] = Event("process_ways", "False")

\* C27: each country adds one to exactly one of skipped, errors and
\* processed, also when process_country raises, so that after a run that
\* was not interrupted the three add up to total_countries; and
\* processed <= exported <= found_codes after every country.
C27_CountersAddUp ==
    pipeline.line \in {"loop", "done"} =>
        /\ stats.skipped + stats.errors + stats.processed = pipeline.i
        /\ pipeline.line = "done" =>
              stats.skipped + stats.errors + stats.processed
                  = stats.total_countries
        /\ stats.processed <= stats.exported
        /\ stats.exported <= stats.found_codes

\* A finished run of two countries: one was processed, the other raised.
C27_Witness ==
    /\ pipeline.line = "done"
    /\ stats.total_countries = 2
    /\ stats.processed = 1
    /\ stats.errors = 1
    /\ pipeline.log = <<Event("find_country_code", "raised")>>

\* C28: a download that does not complete leaves no file behind: a file
\* that is not complete exists only while download_osm_file is writing it,
\* so check_osm_file_exists is true only for a complete file.
C28_NoPartialFile ==
    /\ \A code \in Codes :
          osm_data[code] = "partial" =>
              (pipeline.line = "writing" /\ pipeline.country_code = code)
    /\ \A k \in DOMAIN pipeline.log :
          pipeline.log[k] = Event("check_osm_file_exists", "True") =>
              osm_data[pipeline.country_code] = "complete"

-----------------------------------------------------------------------------
(* uav/process_ways.py: WayProcessor.handle_nominatim_result, way by way.  *)
(* The validator's verdict, the reverse lookup and the database are        *)
(* external to the handler: each gives one of the outcomes it tells apart. *)

\* Most ways one run of the processor handles.
MaxWays == 2

\* Line 293: what validate_nominatim_result gives: False, a score (in
\* tenths), or an exception.
Verdicts ==
    {RetBool(FALSE), Raised("ValueError")}
        \cup {RetFloat(score) : score \in {0, 3, 7, 8, 9, 10}}

\* The Nominatim results of a way: display name, 'lat' and 'lon' (or
\* None) and the OSM id.
WayResults ==
    {[display_name |-> d, lat |-> lat, lon |-> lon, osm_id |-> 100] :
        d \in {A_london, A_cape},
        lat \in {"None", "51.5"}, lon \in {"None", "-0.14"}}

\* Lines 68-96: what query_nominatim_reverse gives: an error, an empty
\* result, or a result with an OSM id.
ReverseOutcomes ==
    {[error |-> TRUE, empty |-> TRUE, osm_id |-> 0],
     [error |-> FALSE, empty |-> TRUE, osm_id |-> 0],
     [error |-> FALSE, empty |-> FALSE, osm_id |-> 100],
     [error |-> FALSE, empty |-> FALSE, osm_id |-> 200]}

\* Lines 36-45, the counters handle_nominatim_result changes.
ZeroWayStats ==
    [validated_score_1 |-> 0, saved_uav |-> 0, skipped_mismatch |-> 0]

\* No way in hand.
NoWay(n, way_stats) ==
    [line |-> "idle", n |-> n, stats |-> way_stats,
     nominatim_result |-> [display_name |-> <<>>, lat |-> "None",
                           lon |-> "None", osm_id |-> 0],
     score |-> NoRet,
     reverse |-> [error |-> TRUE, empty |-> TRUE, osm_id |-> 0],
     writes |-> <<>>]

\* A variant of the test of line 296 that takes every score above 0.
score_is_1_truthy(score) == score.kind = "float" /\ score.val > 0

\* Line 296: if score == 1. False == 1 is false in Python, 1.0 == 1 true.
score_is_1(score) == score.kind = "float" /\ score.val = 10

\* Lines 310-315: update_one({'address': ...}, {'$set': data}, upsert=True).
update_one_upsert(collection, data) ==
    {doc \in collection : doc.address # data.address} \cup {data}

\* What a step of the processor leaves alone.
ProcessorUnchanged ==
    UNCHANGED <<validator, loader, stats, osm_data, pipeline, cleaner>>

\* The handler returns.
WayReturn == [processor EXCEPT !.line = "returned"]

InitWay ==
    /\ ValidatorIdle
    /\ NotLoaded
    /\ stats = [total_countries |-> 0]
    /\ osm_data = <<>>
    /\ pipeline = [line |-> "none"]
    /\ uav_collection = {}
    /\ validated_collection = {}
    /\ processor = NoWay(1, ZeroWayStats)
    /\ cleaner = [line |-> "none"]

\* Lines 288-296 and 323-334: the verdict of the validator, the test for
\* 1, and the test for coordinates. An exception of the validator leaves
\* the handler.
HandleResult ==
    /\ processor.line = "idle"
    /\ \E nominatim_result \in WayResults, score \in Verdicts :
         LET called == [processor EXCEPT
                          !.nominatim_result = nominatim_result,
                          !.score = score]
         IN  processor' =
               IF score.kind = "raise"
               THEN [called EXCEPT !.line = "raised"]
               ELSE IF score_is_1(score)
               THEN [called EXCEPT !.line = "upsert"]
               ELSE IF nominatim_result.lat = "None"
                         \/ nominatim_result.lon = "None"
               THEN [called EXCEPT !.line = "returned"]
               ELSE [called EXCEPT !.line = "reverse"]
    /\ UNCHANGED <<uav_collection, validated_collection>>
    /\ ProcessorUnchanged

\* Lines 297-321: the upsert into validated_addresses succeeds or raises
\* (the exception is printed); the handler returns.
Upsert ==
    /\ processor.line = "upsert"
    /\ LET data == [address |-> processor.nominatim_result.display_name,
                    status |-> 1, score |-> 1, osm_id |-> processor.n]
       IN  \/ /\ validated_collection' =
                    update_one_upsert(validated_collection, data)
              /\ processor' =
                    [WayReturn EXCEPT
                       !.writes = Append(@, "validated_addresses"),
                       !.stats.validated_score_1 = @ + 1]
           \/ /\ UNCHANGED validated_collection
              /\ processor' =
                    [WayReturn EXCEPT
                       !.writes = Append(@, "validated_addresses")]
    /\ UNCHANGED uav_collection
    /\ ProcessorUnchanged

\* Lines 336-350: the reverse lookup; an error, an empty result or another
\* OSM id end the handler.
Reverse ==
    /\ processor.line = "reverse"
    /\ \E reverse \in ReverseOutcomes :
         LET asked == [processor EXCEPT !.reverse = reverse]
         IN  processor' =
               IF reverse.error \/ reverse.empty
               THEN [asked EXCEPT !.line = "returned"]
               ELSE IF reverse.osm_id # processor.nominatim_result.osm_id
               THEN [asked EXCEPT !.line = "returned",
                                  !.stats.skipped_mismatch = @ + 1]
               ELSE [asked EXCEPT !.line = "insert"]
    /\ UNCHANGED <<uav_collection, validated_collection>>
    /\ ProcessorUnchanged

\* Lines 352-372: the insert into uav succeeds or raises (the exception is
\* printed).
Insert ==
    /\ processor.line = "insert"
    /\ LET data == [_id |-> processor.n,
                    address |-> processor.nominatim_result.display_name,
                    status |-> 0, origin_osm |-> processor.n]
       IN  \/ /\ uav_collection' = uav_collection \cup {data}
              /\ processor' =
                    [WayReturn EXCEPT !.writes = Append(@, "uav"),
                                      !.stats.saved_uav = @ + 1]
           \/ /\ UNCHANGED uav_collection
              /\ processor' = [WayReturn EXCEPT !.writes = Append(@, "uav")]
    /\ UNCHANGED validated_collection
    /\ ProcessorUnchanged

\* Lines 402-403: the loop of run() goes on to the next way.
NextWay ==
    /\ processor.line = "returned"
    /\ processor.n < MaxWays
    /\ processor' = NoWay(processor.n + 1, processor.stats)
    /\ UNCHANGED <<uav_collection, validated_collection>>
    /\ ProcessorUnchanged

NextProcessor ==
    \/ HandleResult
    \/ Upsert
    \/ Reverse
    \/ Insert
    \/ NextWay

SpecWay == InitWay /\ [][NextProcessor]_vars

-----------------------------------------------------------------------------
(* Properties of the way processor (SpecWay).                              *)

\* The write into the collection was issued for the way in hand.
Wrote(collection) ==
    \E k \in DOMAIN processor.writes : processor.writes[k] = collection

\* C29: handle_nominatim_result issues at most one database write per way:
\* the upsert into validated_addresses exactly when the verdict equals 1,
\* the insert into uav only when the verdict is not 1, the result has
\* coordinates, the reverse lookup succeeded and gave the result's OSM id;
\* no way is in both collections.
C29_OneWritePerWay ==
    LET score == processor.score
        is_1 == score.kind = "float" /\ score.val = 10
        result == processor.nominatim_result
    IN  /\ Len(processor.writes) <= 1
        /\ processor.line = "returned" =>
              (Wrote("validated_addresses") <=> is_1)
        /\ Wrote("validated_addresses") => is_1
        /\ Wrote("uav") =>
              /\ ~is_1
              /\ score.kind \in {"bool", "float"}
              /\ result.lat # "None" /\ result.lon # "None"
              /\ ~processor.reverse.error /\ ~processor.reverse.empty
              /\ processor.reverse.osm_id = result.osm_id
        /\ \A doc \in uav_collection, val \in validated_collection :
              doc.origin_osm # val.osm_id

\* A way the validator rejected was inserted into uav, after a way with
\* verdict 1 was upserted.
C29_Witness ==
    /\ processor.line = "returned"
    /\ processor.score.kind = "bool"
    /\ processor.writes = <<"uav">>
    /\ Cardinality(uav_collection) = 1
    /\ Cardinality(validated_collection) = 1

-----------------------------------------------------------------------------
(* uav/cleanup_uavs.py: UAVCleaner.remove_duplicate_addresses over a       *)
(* collection no one else writes to.                                       *)

\* The addresses of the documents.
CleanupAddresses == {"address 1", "address 2", "address 3"}

\* Most documents with status 0 of one address before the cleanup.
MaxCopies == 4

\* Line 95: {'$limit': 1000}, and the 1000 of line 141. The model takes 2,
\* so that three addresses give more duplicate groups than one round holds.
GroupLimit == 2

\* Line 98: batch_size = 500. The model takes 2, so that a group of four
\* documents is deleted in two calls of delete_many.
batch_size == 2

\* The documents of an address with the given status, numbered from 1.
Documents(a, status, n) ==
    {[_id |-> <<a, status, k>>, address |-> a, status |-> status] :
        k \in 1..n}

\* A collection with up to MaxCopies documents of status 0 and up to one of
\* status 1 for each address.
Collections ==
    {UNION {Documents(a, 0, zero[a]) \cup Documents(a, 1, one[a]) :
              a \in CleanupAddresses} :
        zero \in [CleanupAddresses -> 0..MaxCopies],
        one \in [CleanupAddresses -> 0..1]}

\* Lines 79-86: the ids of the documents with status 0 and the address, as
\* $push collects them, in the order of the collection.
GroupIds(collection, a) ==
    LET ks == {doc._id[3] : doc \in
                  {d \in collection : d.status = 0 /\ d.address = a}}
    IN  [i \in 1..Cardinality(ks) |->
            <<a, 0, CHOOSE k \in ks : Cardinality({x \in ks : x < k}) = i - 1>>]

\* Lines 77-96: the results the pipeline can give: the groups of more than
\* one document, most documents first (ties in any order), the first
\* GroupLimit of them.
Aggregate(collection) ==
    LET count(a) == Len(GroupIds(collection, a))
        dups == {a \in CleanupAddresses : count(a) > 1}
        n == IF Cardinality(dups) < GroupLimit THEN Cardinality(dups)
             ELSE GroupLimit
    IN  {[i \in 1..n |-> [_id |-> s[i], ids |-> GroupIds(collection, s[i]),
                          count |-> count(s[i])]] :
            s \in {t \in [1..n -> dups] :
                     /\ \A i, j \in 1..n : i < j => t[i] # t[j]
                     /\ \A i, j \in 1..n : i < j => count(t[i]) >= count(t[j])
                     /\ \A a \in dups :
                          (\A i \in 1..n : t[i] # a)
                              => \A i \in 1..n : count(t[i]) >= count(a)}}

\* A variant of the test of line 141 that also stops after a full round.
round_is_last_when_full(n) == n <= GroupLimit

\* Line 141: if len(duplicate_groups) < 1000: break
round_is_last(n) == n < GroupLimit

\* What a step of the cleaner leaves alone.
CleanerUnchanged ==
    UNCHANGED <<validator, loader, stats, osm_data, pipeline,
                validated_collection, processor>>

InitCleanup ==
    /\ ValidatorIdle
    /\ NotLoaded
    /\ stats = [total_countries |-> 0]
    /\ osm_data = <<>>
    /\ pipeline = [line |-> "none"]
    /\ uav_collection \in Collections
    /\ validated_collection = {}
    /\ processor = [line |-> "none"]
    /\ cleaner = [line |-> "aggregate", before |-> uav_collection,
                  duplicate_groups |-> <<>>, group |-> 0, i |-> 0,
                  total_deleted |-> 0, total_groups_processed |-> 0]

\* Lines 102-107: a round begins with the aggregation; no group ends the
\* loop (lines 144-146).
AggregateRound ==
    /\ cleaner.line = "aggregate"
    /\ \E duplicate_groups \in Aggregate(uav_collection) :
         cleaner' =
            IF duplicate_groups = <<>>
            THEN [cleaner EXCEPT !.line = "done", !.duplicate_groups = <<>>]
            ELSE [cleaner EXCEPT !.line = "delete",
                                 !.duplicate_groups = duplicate_groups,
                                 !.group = 1, !.i = 0]
    /\ UNCHANGED uav_collection
    /\ CleanerUnchanged

\* Lines 121-134: one call of delete_many: the next batch_size ids of the
\* group in hand, its first id aside.
DeleteMany ==
    /\ cleaner.line = "delete"
    /\ LET group == cleaner.duplicate_groups[cleaner.group]
           ids_to_delete == Tail(group.ids)
           last == IF cleaner.i + batch_size < Len(ids_to_delete)
                   THEN cleaner.i + batch_size ELSE Len(ids_to_delete)
           batch_ids == {ids_to_delete[k] : k \in (cleaner.i + 1)..last}
           deleted == {doc \in uav_collection : doc._id \in batch_ids}
           counted == [cleaner EXCEPT
                         !.total_deleted = @ + Cardinality(deleted)]
       IN  /\ uav_collection' = uav_collection \ deleted
           /\ cleaner' =
                IF last < Len(ids_to_delete)
                THEN [counted EXCEPT !.i = last]
                ELSE IF cleaner.group < Len(cleaner.duplicate_groups)
                THEN [counted EXCEPT !.group = @ + 1, !.i = 0]
                ELSE [counted EXCEPT !.line = "end of round"]
    /\ CleanerUnchanged

\* Lines 136-146: the round is counted; fewer groups than the limit end
\* the loop, else the next round begins.
EndRound ==
    /\ cleaner.line = "end of round"
    /\ LET counted == [cleaner EXCEPT
                         !.total_groups_processed =
                             @ + Len(cleaner.duplicate_groups)]
       IN  cleaner' =
             IF round_is_last(Len(cleaner.duplicate_groups))
             THEN [counted EXCEPT !.line = "done"]
             ELSE [counted EXCEPT !.line = "aggregate"]
    /\ UNCHANGED uav_collection
    /\ CleanerUnchanged

NextCleanup ==
    \/ AggregateRound
    \/ DeleteMany
    \/ EndRound

\* The script runs on while it has a step to take.
SpecCleanup == InitCleanup /\ [][NextCleanup]_vars /\ WF_vars(NextCleanup)

-----------------------------------------------------------------------------
(* Properties of the cleanup (SpecCleanup).                                *)

\* The documents of the collection with status 0 and the address.
StatusZero(collection, a) ==
    {doc \in collection : doc.status = 0 /\ doc.address = a}

\* No two documents with status 0 share an address, and every address that
\* had such a document has one.
Deduplicated ==
    \A a \in CleanupAddresses :
        /\ Cardinality(StatusZero(uav_collection, a)) <= 1
        /\ StatusZero(cleaner.before, a) # {}
              => Cardinality(StatusZero(uav_collection, a)) = 1

\* Every document whose status is not 0 is still there, and no document
\* has been added.
OthersKept ==
    /\ \A doc \in cleaner.before : doc.status # 0 => doc \in uav_collection
    /\ uav_collection \subseteq cleaner.before

\* C30: remove_duplicate_addresses terminates, and with no other writer it
\* ends with exactly one document of status 0 for every address that had
\* one, no two documents of status 0 sharing an address, and every document
\* of another status kept, also when there are more duplicate groups than
\* one aggregation round returns.
C30_Deduplicates ==
    /\ <>(cleaner.line = "done")
    /\ [](cleaner.line = "done" => Deduplicated)
    /\ []OthersKept

\* The cleanup ended after more groups than one round holds, a document of
\* status 1 sharing the address of deleted ones.
C30_Witness ==
    /\ cleaner.line = "done"
    /\ cleaner.total_groups_processed > GroupLimit
    /\ cleaner.total_deleted >= 5
    /\ \E doc \in uav_collection : doc.status = 1

=============================================================================
